---- MODULE Spec2Model ----
(***************************************************************************)
(* The hub of star-protocol v4: the connection registry                    *)
(* (hub/manager.py), the router (hub/router.py) and the server's           *)
(* per-connection handler and heartbeat sweeper (hub/server.py).           *)
(*                                                                         *)
(* The hub runs on one asyncio event loop: the code between two awaits is  *)
(* atomic.  Every websocket is handled by its own task (_handle_client);   *)
(* one action below is one handler step from a frame read to the next     *)
(* read.                                                                   *)
(***************************************************************************)
EXTENDS Integers, Sequences, FiniteSets, TLC

\* ---------------------------------------------------------------- bounds
\* Number of websockets that are ever opened towards the hub.
NSock == 3

\* The last reading of the client's clock, in units of 150 seconds.
MaxTime == 4

\* Number of client tasks that call the context API.
NTask == 2

\* the number of context items a client creates
MaxItems == 2

\* The number of handlers a user registers for one message kind.
MaxHandlers == 2

Socks == 1..NSock

\* ---------------------------------------------------------------- values
None == "None"

AGENT == "agent"
ENVIRONMENT == "environment"
HUMAN == "human"
ClientType == {AGENT, ENVIRONMENT, HUMAN}

HEARTBEAT == "heartbeat"
MESSAGE == "message"
ERROR == "error"
EnvelopeType == {HEARTBEAT, MESSAGE, ERROR}

MessageKinds == {"action", "outcome", "event", "stream", "registration"}

\* Python truthiness of an Optional[str]: None and "" are both false.
Truthy(x) == x # None /\ x # ""

\* ---------------------------------------------------------------- strings
\* The strings the model uses, as the character sequences the string
\* operations of the code work on.
Chars(str) ==
    CASE str = "a1" -> <<"a", "1">>
      [] str = "a2" -> <<"a", "2">>
      [] str = "aw1" -> <<"a", "w", "1">>
      [] str = "w1" -> <<"w", "1">>
      [] str = "w2" -> <<"w", "2">>
      [] str = "h1" -> <<"h", "1">>
      [] str = "env_w1" -> <<"e", "n", "v", "_", "w", "1">>
      [] str = "env_" -> <<"e", "n", "v", "_">>
      [] str = "demo" -> <<"d", "e", "m", "o">>
      [] str = "demo_world" -> <<"d", "e", "m", "o", "_", "w", "o", "r", "l", "d">>
      [] str = "agent" -> <<"a", "g", "e", "n", "t">>
      [] str = "environment" -> <<"e", "n", "v", "i", "r", "o", "n", "m", "e", "n", "t">>
      [] str = "human" -> <<"h", "u", "m", "a", "n">>
      [] str = "Human" -> <<"H", "u", "m", "a", "n">>
      [] str = "" -> <<>>

Strings == {"a1", "a2", "aw1", "w1", "w2", "h1", "env_w1", "env_", "demo", "demo_world",
            "agent", "environment", "human", "Human", ""}

\* The string with the given characters.
Str(cs) == CHOOSE str \in Strings : Chars(str) = cs

LowerChar(c) == IF c = "H" THEN "h" ELSE c

\* str.lower()
Lower(str) == Str([i \in 1..Len(Chars(str)) |-> LowerChar(Chars(str)[i])])

\* True iff the character sequence sub starts at position i of cs.
MatchAt(cs, sub, i) ==
    /\ i + Len(sub) - 1 <= Len(cs)
    /\ \A k \in 1..Len(sub) : cs[i + k - 1] = sub[k]

\* sub in str
Contains(sub, str) ==
    \E i \in 1..(Len(Chars(str)) + 1) : MatchAt(Chars(str), Chars(sub), i)

RECURSIVE ReplaceChars(_, _, _, _)
ReplaceChars(cs, old, new, i) ==
    IF i > Len(cs) THEN <<>>
    ELSE IF MatchAt(cs, old, i)
         THEN new \o ReplaceChars(cs, old, new, i + Len(old))
         ELSE <<cs[i]>> \o ReplaceChars(cs, old, new, i + 1)

\* str.replace(old, new), old non-empty
Replace(str, old, new) == Str(ReplaceChars(Chars(str), Chars(old), Chars(new), 1))


\* ---------------------------------------------------------------- frames
\* A text frame as a client writes it: the JSON keys the hub reads.  type is
\* the envelope type; mkind is message.message_type; event is message.event;
\* client_type and env_id are the keys of a connect event's data.
Frame(type, sender, recipient, mkind, event, client_type, env_id) ==
    [type |-> type, sender |-> sender, recipient |-> recipient, mkind |-> mkind,
     event |-> event, client_type |-> client_type, env_id |-> env_id]

ConnectFrame(sender, client_type, env_id) ==
    Frame(MESSAGE, sender, "hub", "event", "connect", client_type, env_id)

\* The connect events clients open a socket with.
ConnectFrames ==
    { ConnectFrame("a1", "agent", "w1"),
      ConnectFrame("a2", "agent", None),
      ConnectFrame("env_w1", "environment", None),
      ConnectFrame("h1", "Human", "w2") }

ClientIds == {f.sender : f \in ConnectFrames}

\* First frames that are no connect event: a heartbeat, another event, another
\* message kind, an error envelope that carries a connect event, and frames
\* that do not decode (unknown envelope type, unknown message_type).
BadFirstFrames ==
    { Frame(HEARTBEAT, "a1", "hub", None, None, None, None),
      Frame(MESSAGE, "a1", "hub", "event", "tick", None, None),
      Frame(MESSAGE, "a1", "hub", "action", None, None, None),
      Frame(ERROR, "a2", "hub", "event", "connect", "agent", None),
      Frame("bogus", "a2", "hub", "event", "connect", "agent", None),
      Frame(MESSAGE, "a2", "hub", "bogus", "connect", "agent", None) }

FirstFrames == ConnectFrames \cup BadFirstFrames

Recipients == {"broadcast", ""} \cup ClientIds

\* The frames a registered client writes in its read loop.  The sender key is
\* whatever the client puts there.
MessageFrame(sender, recipient, mkind) ==
    Frame(MESSAGE, sender, recipient, mkind,
          IF mkind = "event" THEN "tick" ELSE None, None, None)

\* Envelopes addressed to the broadcast audience, of every message kind.
BroadcastFrames ==
    { MessageFrame(snd, "broadcast", k) : snd \in ClientIds, k \in MessageKinds }
    \cup { MessageFrame(snd, "", k) : snd \in ClientIds, k \in {"event", "action"} }
    \cup { Frame(ERROR, snd, "broadcast", "event", "tick", None, None) : snd \in ClientIds }

\* Envelopes addressed to one client id.
DirectFrames ==
    { MessageFrame(snd, rcp, "action") : snd \in ClientIds, rcp \in ClientIds }
    \cup { Frame(ERROR, "a1", rcp, "event", "tick", None, None) : rcp \in ClientIds }

HeartbeatFrames ==
    { Frame(HEARTBEAT, "a1", rcp, None, None, None, None) : rcp \in Recipients }

LoopFrames == BroadcastFrames \cup DirectFrames \cup HeartbeatFrames

\* Envelope.from_json: TRUE iff the frame decodes.
Decodes(f) ==
    /\ f.type \in EnvelopeType
    /\ f.type # HEARTBEAT => f.mkind \in MessageKinds

\* ---------------------------------------------------------------- state
VARIABLES
    max_connections,  \* HubServer.max_connections, as passed to the constructor
    ws,               \* [Socks -> "idle" | "open" | "peer_gone" | "closed"]: each websocket
    close_code,       \* [Socks -> code the hub closed the websocket with, 0 if it did not]
    hpc,              \* [Socks -> "none" | "loop" | "exited"]: _handle_client of each websocket
    hid,              \* [Socks -> client_id local of _handle_client, None before registration]
    connections,      \* ConnectionManager._connections, in dict insertion order
    type_index,       \* ConnectionManager._type_index
    env_index,        \* ConnectionManager._env_index
    timeout_clients,  \* _heartbeat_checker: the ids still to close in the current sweep
    handled           \* the step a handler has just made: the frame _handle_client of
                      \* websocket `from` read and what the hub did with it; Idle once
                      \* the handler awaits its next frame

\* ---------------------------------------------------------------- context
\* One client's context manager (client/context.py) and the tasks of the
\* client that use it.
Tasks == 1..NTask

\* The request ids of the client, in the order _generate_request_id makes them.
IdOrder == <<"q1">>

ReqIds == {IdOrder[k] : k \in 1..Len(IdOrder)}

\* The task that calls send_action_with_context, and the tasks that call
\* wait_for_response themselves.
Senders == {1}

Waiters == Tasks \ Senders

\* The timeouts a caller passes, in units of 150 seconds.
Timeouts == {1, 2}

\* Two different inbound messages that carry the same correlation id.
Replies == {"r1", "r2"}

PENDING == "pending"
COMPLETED == "completed"
TIMEOUT == "timeout"
ERROR_STATUS == "error"

\* completed_at = None
NoTime == 0

\* _cleanup_expired_contexts removes a non-pending entry whose elapsed_time
\* exceeds 300 seconds, two units of time.
CleanupAge == 2

\* A call of complete_request or error_request and the value it returned.
Returned(call, request_id, value) ==
    [call |-> call, request_id |-> request_id, value |-> value]

\* The last step was no call of complete_request or error_request.
NoCall == Returned(None, None, None)

\* The message kinds the client keeps a list of user handlers for.
HandlerKinds == {"action", "outcome", "event", "stream"}

\* The client has not dispatched a message yet.
NoDispatch ==
    [message |-> [kind |-> None, event |-> None, id |-> None, body |-> None],
     at |-> 1, called |-> <<>>]

\* A task that has not called the context API yet.
IdleTask == [pc |-> "idle", call |-> None, item |-> 0, deadline |-> 0,
             waited |-> FALSE, got |-> None, value |-> None]

\* The state of one client's context manager (client/context.py).
VARIABLES
    now,        \* time.time(), in units of 100 seconds
    items,      \* the ContextItem objects created so far, in creation order
    contexts,   \* ClientContext._contexts: request_id -> position in items, 0 if absent
    stats,      \* ClientContext._stats
    tasks,      \* the client's tasks that call the context API, each with its position
    callbacks,  \* the number of _execute_callback tasks created so far
    returned    \* the call of complete_request, error_request or the sweep made by
                \* the last step and what it returned, NoCall after any other step

\* The state of the client that owns the context manager (client/base.py).
VARIABLES
    connected,     \* BaseClient.connected
    client_websocket,  \* BaseClient.websocket: "none", or the state of the connection
    cleanup_task,  \* ClientContext._cleanup_task: "none", or the state of the task
    receiving,     \* the task of receive_loop: "none", "running" or "ended"
    seen           \* the user handlers on_message ran in the last step, None after
                   \* any other step

\* The envelopes on their way through the hub to the clients' handlers.
VARIABLES
    routing,     \* [Socks -> the route_envelope call _handle_client of the websocket
                 \* awaits, NoRoute when it awaits its next frame]
    stalled,     \* the websockets whose peer does not drain: a write to one blocks
    sent,        \* [Socks -> the number of envelopes the hub has read from the websocket]
    wire,        \* [Socks -> the envelopes written to the websocket that its client
                 \* has not dispatched yet, oldest first]
    dispatched   \* [Socks -> [Socks -> the sequence of the last envelope from that
                 \* websocket the client's receive_loop has handed to its handlers,
                 \* 0 before the first]]

wirevars == <<routing, stalled, sent, wire, dispatched>>

\* The user's handlers of the client and the message they are run for
\* (client/base.py).
VARIABLES
    user_handlers,  \* [kind -> BaseClient._action_handlers, _outcome_handlers,
                    \* _event_handlers or _stream_handlers, in registration order]
    dispatching     \* the message whose handlers on_message last ran, the position
                    \* in the list of the next handler to call and the positions of
                    \* the handlers whose function has been called for it, in order

dispvars == <<user_handlers, dispatching>>

\* The life of the hub (HubServer.start and HubServer.stop).
VARIABLES
    running,    \* HubServer.running
    server,     \* HubServer.server: "none", "serving", or "closing" once
                \* server.close() was called
    stopping,   \* the position of the stop() call in progress: "none", "gather"
                \* or "wait_closed"
    stops       \* the number of stop() calls that have returned

stopvars == <<running, server, stopping, stops>>

\* One envelope on its way through the codec (protocol/messages.py).
VARIABLES
    codec       \* the envelope a client built, then its encoding, then the envelope
                \* decoded from the encoding; empty when no envelope is under way

clivars == <<connected, client_websocket, cleanup_task, receiving>>

ctxvars == <<now, items, contexts, stats, tasks, callbacks, returned, connected,
             client_websocket, cleanup_task, receiving, seen, user_handlers,
             dispatching>>

hubvars == <<max_connections, ws, close_code, hpc, hid, connections, type_index,
             env_index, timeout_clients, handled, routing, stalled, sent, wire,
             dispatched, running, server, stopping, stops, codec>>

vars == <<max_connections, ws, close_code, hpc, hid, connections, type_index, env_index,
          timeout_clients, handled, now, items, contexts, stats, tasks, callbacks,
          returned, connected, client_websocket, cleanup_task, receiving,
          seen, routing, stalled, sent, wire, dispatched, running, server, stopping,
          stops, codec, user_handlers, dispatching>>

Idle == [op |-> "none"]

\* No route_envelope call in progress.
NoRoute == [sequence |-> 0, targets |-> <<>>, failed_clients |-> {}]

\* A first frame: `was` is the websocket registered under the claimed id when
\* the frame arrived (0 if none), `notified` the websockets an agent_joined
\* event was written to.
Shaken(s, f, was, notified) ==
    [op |-> "handshake", from |-> s, frame |-> f, was |-> was, notified |-> notified]

\* A frame of the read loop: `written` is the set of websockets the envelope
\* was written to, `failed` the set of websockets a write to which failed.
Looped(s, f, written, failed) ==
    [op |-> "frame", from |-> s, frame |-> f, written |-> written,
     failed |-> failed]

\* Connection(websocket, client_info): connected = True and a fresh last_heartbeat.
\* overdue stands for last_heartbeat < now - 2 * heartbeat_interval.
Connection(websocket, info) ==
    [websocket |-> websocket, client_id |-> info.client_id,
     client_type |-> info.client_type, env_id |-> info.env_id,
     connected |-> TRUE, overdue |-> FALSE]

ClientInfo(client_id, client_type, env_id) ==
    [client_id |-> client_id, client_type |-> client_type, env_id |-> env_id]

\* The registry as one value: the three maps of the ConnectionManager.
Registry == [connections |-> connections, type_index |-> type_index,
             env_index |-> env_index]

ConnIds(reg) == {reg.connections[i].client_id : i \in 1..Len(reg.connections)}

\* ConnectionManager.get_connection; None when the id is not in ConnIds(reg)
get_connection(reg, client_id) ==
    IF client_id \in ConnIds(reg)
    THEN LET i == CHOOSE i \in 1..Len(reg.connections) :
                      reg.connections[i].client_id = client_id
         IN reg.connections[i]
    ELSE None

\* The websocket registered under client_id, 0 when there is none.
websocket_of(reg, client_id) ==
    IF client_id \in ConnIds(reg) THEN get_connection(reg, client_id).websocket ELSE 0

\* dict[key].add(client_id), creating the key's set when the key is new
IndexAdd(index, key, client_id) ==
    [k \in DOMAIN index \cup {key} |->
        IF k = key
        THEN (IF k \in DOMAIN index THEN index[k] ELSE {}) \cup {client_id}
        ELSE index[k]]

\* ConnectionManager.add_connection, when the id is not registered
add_connection(reg, websocket, info) ==
    [connections |-> Append(reg.connections, Connection(websocket, info)),
     type_index |-> [reg.type_index EXCEPT ![info.client_type] = @ \cup {info.client_id}],
     env_index |-> IF Truthy(info.env_id)
                   THEN IndexAdd(reg.env_index, info.env_id, info.client_id)
                   ELSE reg.env_index]

\* remove_connection that leaves the id in the env index.
remove_connection_keeps_env(reg, client_id) ==
    IF client_id \notin ConnIds(reg) THEN reg
    ELSE LET conn == get_connection(reg, client_id)
         IN [connections |-> SelectSeq(reg.connections,
                                       LAMBDA c : c.client_id # client_id),
             type_index |-> [reg.type_index EXCEPT ![conn.client_type] = @ \ {client_id}],
             env_index |-> reg.env_index]

\* ConnectionManager.remove_connection
remove_connection(reg, client_id) ==
    IF client_id \notin ConnIds(reg) THEN reg
    ELSE LET conn == get_connection(reg, client_id)
             env == conn.env_id
             discarded == [reg.env_index EXCEPT ![env] = @ \ {client_id}]
         IN [connections |-> SelectSeq(reg.connections,
                                       LAMBDA c : c.client_id # client_id),
             type_index |-> [reg.type_index EXCEPT ![conn.client_type] = @ \ {client_id}],
             env_index |-> IF Truthy(env) /\ env \in DOMAIN reg.env_index
                           THEN IF discarded[env] = {}
                                THEN [k \in DOMAIN discarded \ {env} |-> discarded[k]]
                                ELSE discarded
                           ELSE reg.env_index]

RECURSIVE remove_all(_, _)
\* remove_connection for every id of a set
remove_all(reg, ids) ==
    IF ids = {} THEN reg
    ELSE LET id == CHOOSE id \in ids : TRUE
         IN remove_all(remove_connection(reg, id), ids \ {id})

\* ConnectionManager.update_heartbeat / Connection.update_heartbeat
update_heartbeat(reg, client_id) ==
    [reg EXCEPT !.connections =
        [i \in 1..Len(reg.connections) |->
            IF reg.connections[i].client_id = client_id
            THEN [reg.connections[i] EXCEPT !.overdue = FALSE]
            ELSE reg.connections[i]]]

\* ConnectionManager.get_connections_by_env: the keys of the returned dict
get_connections_by_env(reg, env_id) ==
    IF env_id \in DOMAIN reg.env_index
    THEN {id \in reg.env_index[env_id] : id \in ConnIds(reg)}
    ELSE {}

\* ConnectionManager.get_all_connections: the keys of the returned dict
get_all_connections(reg) == ConnIds(reg)

\* ---------------------------------------------------------------- router
\* MessageRouter._get_message_broadcast_targets: the keys of the returned dict.
\* The sender's connection is looked up under envelope.sender.
get_message_broadcast_targets(reg, envelope) ==
    LET sender_connection == get_connection(reg, envelope.sender)
    IN IF envelope.sender \notin ConnIds(reg) THEN {}
       ELSE IF envelope.mkind = "event"
            THEN IF sender_connection.client_type = ENVIRONMENT
                 THEN IF Truthy(sender_connection.env_id)
                      THEN get_connections_by_env(reg, sender_connection.env_id)
                      ELSE get_all_connections(reg)
                 ELSE IF sender_connection.client_type = HUMAN
                      THEN get_all_connections(reg)
                      ELSE IF Truthy(sender_connection.env_id)
                           THEN get_connections_by_env(reg, sender_connection.env_id)
                           ELSE {}
       ELSE IF envelope.mkind = "stream"
            THEN IF sender_connection.client_type = HUMAN
                 THEN get_all_connections(reg)
                 ELSE IF Truthy(sender_connection.env_id)
                      THEN get_connections_by_env(reg, sender_connection.env_id)
                      ELSE {}
       ELSE IF envelope.mkind \in {"action", "outcome"}
            THEN IF Truthy(sender_connection.env_id)
                 THEN {id \in get_connections_by_env(reg, sender_connection.env_id) :
                          get_connection(reg, id).client_type
                              # sender_connection.client_type}
                 ELSE {}
       ELSE {}

\* MessageRouter._get_broadcast_targets
get_broadcast_targets(reg, envelope) ==
    IF envelope.type \in {HEARTBEAT, ERROR} THEN {}
    ELSE IF envelope.type = MESSAGE THEN get_message_broadcast_targets(reg, envelope)
    ELSE {}

\* Connection.send_envelope: TRUE iff the write succeeds.  websocket.send raises
\* once the websocket is closed.
send_envelope(conn) == conn.connected /\ ws[conn.websocket] = "open"

\* The targets _route_broadcast tries to write to: all but envelope.sender.
broadcast_attempts(reg, envelope) ==
    {id \in get_broadcast_targets(reg, envelope) : id # envelope.sender}

\* The result of a routing call: the registry it leaves, the websockets the
\* envelope was written to and the websockets a write to which failed.
Routed(reg, written, failed) == [reg |-> reg, written |-> written, failed |-> failed]

\* _route_broadcast that leaves the targets whose write failed registered.
route_broadcast_keeps_failed(reg, envelope) ==
    LET attempts == broadcast_attempts(reg, envelope)
        failed_clients == {id \in attempts : ~send_envelope(get_connection(reg, id))}
    IN Routed(reg,
              {get_connection(reg, id).websocket : id \in attempts \ failed_clients},
              {get_connection(reg, id).websocket : id \in failed_clients})

\* MessageRouter._route_broadcast
route_broadcast(reg, envelope) ==
    LET attempts == broadcast_attempts(reg, envelope)
        failed_clients == {id \in attempts : ~send_envelope(get_connection(reg, id))}
    IN Routed(remove_all(reg, failed_clients),
              {get_connection(reg, id).websocket : id \in attempts \ failed_clients},
              {get_connection(reg, id).websocket : id \in failed_clients})

\* _route_to_specific_client that answers the sender when the recipient is
\* unknown.
route_to_specific_client_reports(reg, envelope) ==
    LET connection == get_connection(reg, envelope.recipient)
    IN IF envelope.recipient \notin ConnIds(reg)
       THEN Routed(reg, {websocket_of(reg, envelope.sender)} \ {0}, {})
       ELSE IF send_envelope(connection) THEN Routed(reg, {connection.websocket}, {})
       ELSE Routed(remove_connection(reg, envelope.recipient), {},
                   {connection.websocket})

\* MessageRouter._route_to_specific_client
route_to_specific_client(reg, envelope) ==
    LET connection == get_connection(reg, envelope.recipient)
    IN IF envelope.recipient \notin ConnIds(reg) THEN Routed(reg, {}, {})
       ELSE IF send_envelope(connection) THEN Routed(reg, {connection.websocket}, {})
       ELSE Routed(remove_connection(reg, envelope.recipient), {},
                   {connection.websocket})

\* route_envelope that sends every envelope to the broadcast audience,
\* whatever its recipient.
route_envelope_broadcasts(reg, envelope, sender_connection) ==
    route_broadcast(update_heartbeat(reg, sender_connection.client_id), envelope)

\* MessageRouter.route_envelope
route_envelope(reg, envelope, sender_connection) ==
    LET touched == update_heartbeat(reg, sender_connection.client_id)
    IN IF Truthy(envelope.recipient) /\ envelope.recipient # "broadcast"
       THEN route_to_specific_client(touched, envelope)
       ELSE route_broadcast(touched, envelope)

\* ---------------------------------------------------------------- server
\* HubServer._infer_env_id_for_agent
infer_env_id_for_agent(reg, client_id) ==
    LET envs == SelectSeq(reg.connections, LAMBDA c : c.client_type = ENVIRONMENT)
        env_connections == [i \in 1..Len(envs) |-> envs[i].env_id]
        matching == {i \in 1..Len(env_connections) :
                        Contains(env_connections[i], Lower(client_id))}
    IN IF Len(env_connections) = 1 THEN env_connections[1]
       ELSE IF Len(env_connections) > 1
            THEN IF matching # {}
                 THEN env_connections[CHOOSE i \in matching :
                                          \A j \in matching : i <= j]
                 ELSE env_connections[1]
       ELSE IF Contains("demo", Lower(client_id)) THEN "demo_world"
       ELSE None

\* _create_client_info_from_connect that compares the declared client type as
\* it is written, without lower-casing it.
create_client_info_from_connect_as_written(reg, client_id, connect_data) ==
    IF connect_data.client_type = "environment"
    THEN ClientInfo(client_id, ENVIRONMENT,
                    IF Truthy(connect_data.env_id) THEN connect_data.env_id
                    ELSE Replace(client_id, "env_", ""))
    ELSE IF connect_data.client_type = "human"
         THEN ClientInfo(client_id, HUMAN, connect_data.env_id)
         ELSE ClientInfo(client_id, AGENT,
                         IF Truthy(connect_data.env_id) THEN connect_data.env_id
                         ELSE infer_env_id_for_agent(reg, client_id))

\* HubServer._create_client_info_from_connect
create_client_info_from_connect(reg, client_id, connect_data) ==
    LET client_type_str == Lower(connect_data.client_type)
    IN IF client_type_str = "environment"
       THEN ClientInfo(client_id, ENVIRONMENT,
                       IF Truthy(connect_data.env_id) THEN connect_data.env_id
                       ELSE Replace(client_id, "env_", ""))
       ELSE IF client_type_str = "human"
            THEN ClientInfo(client_id, HUMAN, connect_data.env_id)
            ELSE ClientInfo(client_id, AGENT,
                            IF Truthy(connect_data.env_id) THEN connect_data.env_id
                            ELSE infer_env_id_for_agent(reg, client_id))

\* is_connect_message that does not look at the envelope type.
is_connect_message_any_type(f) ==
    /\ Decodes(f)
    /\ f.mkind = "event"
    /\ f.event = "connect"

\* HubServer._parse_and_validate_connect_message: TRUE iff the first frame is
\* accepted as a connect event.
is_connect_message(f) ==
    /\ Decodes(f)
    /\ f.type = MESSAGE
    /\ f.mkind = "event"
    /\ f.event = "connect"

\* register_code without the duplicate check of add_connection.
register_code_no_duplicate_check(reg, client_id) ==
    IF Len(reg.connections) >= max_connections THEN 1013 ELSE 0

\* register_code without the check of the connection cap.
register_code_no_cap_check(reg, client_id) ==
    IF client_id \in ConnIds(reg) THEN 1002 ELSE 0

\* The close code of HubServer._register_client, 0 when the client is registered.
register_code(reg, client_id) ==
    IF Len(reg.connections) >= max_connections THEN 1013
    ELSE IF client_id \in ConnIds(reg) THEN 1002
    ELSE 0

SetRegistry(reg) ==
    /\ connections' = reg.connections
    /\ type_index' = reg.type_index
    /\ env_index' = reg.env_index

\* HubServer._notify_environment_agent_joined, called once the agent is in
\* reg: the websockets the agent_joined event is written to.  The environment
\* is looked up under the agent's env_id; the agent's own websocket has just
\* been read from and is open.
notify_environment_agent_joined(reg, agent_info) ==
    IF ~Truthy(agent_info.env_id) THEN {}
    ELSE IF agent_info.env_id \in ConnIds(reg)
         THEN {w \in {websocket_of(reg, agent_info.env_id)} :
                  w = websocket_of(reg, agent_info.client_id) \/ ws[w] = "open"}
         ELSE {}

\* _handle_client up to its read loop: a client opens websocket s and writes
\* its first frame f; the hub registers the client or closes the websocket.
\* Websockets are numbered in the order they are opened.
Handshake(s, f) ==
    /\ UNCHANGED ctxvars
    /\ UNCHANGED codec
    /\ UNCHANGED stopvars
    /\ UNCHANGED wirevars
    /\ handled = Idle
    /\ server = "serving"
    /\ ws[s] = "idle"
    /\ s > 1 => ws[s - 1] # "idle"
    /\ UNCHANGED <<max_connections, timeout_clients>>
    /\ IF ~is_connect_message(f)
       THEN /\ ws' = [ws EXCEPT ![s] = "closed"]
            /\ handled' = Shaken(s, f, 0, {})
            /\ close_code' = [close_code EXCEPT ![s] = 1002]
            /\ hpc' = [hpc EXCEPT ![s] = "exited"]
            /\ UNCHANGED <<hid, connections, type_index, env_index>>
       ELSE LET client_id == f.sender
                info == create_client_info_from_connect(Registry, client_id, f)
                code == register_code(Registry, client_id)
            IN IF code # 0
               THEN /\ ws' = [ws EXCEPT ![s] = "closed"]
                    /\ handled' = Shaken(s, f, websocket_of(Registry, client_id), {})
                    /\ close_code' = [close_code EXCEPT ![s] = code]
                    /\ hpc' = [hpc EXCEPT ![s] = "exited"]
                    /\ UNCHANGED <<hid, connections, type_index, env_index>>
               ELSE /\ ws' = [ws EXCEPT ![s] = "open"]
                    /\ hpc' = [hpc EXCEPT ![s] = "loop"]
                    /\ hid' = [hid EXCEPT ![s] = client_id]
                    /\ SetRegistry(update_heartbeat(
                           add_connection(Registry, s, info), client_id))
                    /\ handled' = Shaken(s, f, 0,
                           IF info.client_type = AGENT /\ Truthy(info.env_id)
                           THEN notify_environment_agent_joined(
                                    add_connection(Registry, s, info), info)
                           ELSE {})
                    /\ UNCHANGED close_code

\* handle_frame that routes a heartbeat like any other envelope.
handle_frame_forwards_heartbeat(reg, client_id, f) ==
    IF ~Decodes(f) \/ client_id \notin ConnIds(reg) THEN Routed(reg, {}, {})
    ELSE route_envelope(reg, f, get_connection(reg, client_id))

\* handle_frame without the try/except around the body of the read loop: a
\* frame that does not decode ends the handler, whose finally block removes
\* the connection.
handle_frame_decode_raises(reg, client_id, f) ==
    IF ~Decodes(f) THEN Routed(remove_connection(reg, client_id), {}, {})
    ELSE IF f.type = HEARTBEAT THEN Routed(update_heartbeat(reg, client_id), {}, {})
    ELSE IF client_id \notin ConnIds(reg) THEN Routed(reg, {}, {})
    ELSE route_envelope(reg, f, get_connection(reg, client_id))

\* The body of the read loop of _handle_client for one frame f, client_id
\* being the handler's local: the registry it leaves and the websockets the
\* envelope was written to.
handle_frame(reg, client_id, f) ==
    IF ~Decodes(f) THEN Routed(reg, {}, {})
    ELSE IF f.type = HEARTBEAT THEN Routed(update_heartbeat(reg, client_id), {}, {})
    ELSE IF client_id \notin ConnIds(reg) THEN Routed(reg, {}, {})
    ELSE route_envelope(reg, f, get_connection(reg, client_id))

\* The read loop of _handle_client: one frame of websocket s.
Receive(s, f) ==
    /\ UNCHANGED ctxvars
    /\ UNCHANGED codec
    /\ UNCHANGED stopvars
    /\ UNCHANGED wirevars
    /\ handled = Idle
    /\ hpc[s] = "loop"
    /\ ws[s] = "open"
    /\ UNCHANGED <<max_connections, ws, close_code, hpc, hid, timeout_clients>>
    /\ LET r == handle_frame(Registry, hid[s], f)
       IN /\ SetRegistry(r.reg)
          /\ handled' = Looped(s, f, r.written, r.failed)

\* The handler that made the last step awaits its next frame.
LoopAgain ==
    /\ UNCHANGED ctxvars
    /\ UNCHANGED codec
    /\ UNCHANGED stopvars
    /\ UNCHANGED wirevars
    /\ handled # Idle
    /\ handled' = Idle
    /\ UNCHANGED <<max_connections, ws, close_code, hpc, hid, connections,
                   type_index, env_index, timeout_clients>>

\* The client of websocket s goes away: the websocket is closed from the far
\* side; its handler has not run yet.
PeerClose(s) ==
    /\ UNCHANGED ctxvars
    /\ UNCHANGED codec
    /\ UNCHANGED stopvars
    /\ UNCHANGED wirevars
    /\ handled = Idle
    /\ ws[s] = "open"
    /\ ws' = [ws EXCEPT ![s] = "peer_gone"]
    /\ handled' = Idle
    /\ UNCHANGED <<max_connections, close_code, hpc, hid, connections, type_index,
                   env_index, timeout_clients>>

\* _handle_client leaves its read loop on a closed websocket: the finally
\* block removes the connection registered under its client_id, and the
\* websocket is closed when the handler returns.
HandlerExit(s) ==
    /\ UNCHANGED ctxvars
    /\ UNCHANGED codec
    /\ UNCHANGED stopvars
    /\ UNCHANGED wirevars
    /\ handled = Idle
    /\ hpc[s] = "loop"
    /\ routing[s] = NoRoute
    /\ ws[s] \in {"peer_gone", "closed"}
    /\ hpc' = [hpc EXCEPT ![s] = "exited"]
    /\ hid' = [hid EXCEPT ![s] = None]
    /\ ws' = [ws EXCEPT ![s] = "closed"]
    /\ SetRegistry(remove_connection(Registry, hid[s]))
    /\ handled' = Idle
    /\ UNCHANGED <<max_connections, close_code, timeout_clients>>

\* More than 2 * heartbeat_interval pass without a frame: every registered
\* connection is overdue.
TimePasses ==
    /\ UNCHANGED ctxvars
    /\ UNCHANGED codec
    /\ UNCHANGED stopvars
    /\ UNCHANGED wirevars
    /\ handled = Idle
    /\ \E i \in 1..Len(connections) : ~connections[i].overdue
    /\ connections' = [i \in 1..Len(connections) |->
                          [connections[i] EXCEPT !.overdue = TRUE]]
    /\ UNCHANGED <<max_connections, ws, close_code, hpc, hid, type_index, env_index,
                   timeout_clients, handled>>

\* _heartbeat_checker wakes up and collects the overdue connections.
SweepScan ==
    /\ UNCHANGED ctxvars
    /\ UNCHANGED codec
    /\ UNCHANGED stopvars
    /\ UNCHANGED wirevars
    /\ handled = Idle
    /\ running
    /\ timeout_clients = <<>>
    /\ LET overdue == SelectSeq(connections, LAMBDA c : c.overdue)
       IN /\ overdue # <<>>
          /\ timeout_clients' = [i \in 1..Len(overdue) |-> overdue[i].client_id]
    /\ handled' = Idle
    /\ UNCHANGED <<max_connections, ws, close_code, hpc, hid, connections,
                   type_index, env_index>>

\* _heartbeat_checker closes and removes the next collected client.
SweepClose ==
    /\ UNCHANGED ctxvars
    /\ UNCHANGED codec
    /\ UNCHANGED stopvars
    /\ UNCHANGED wirevars
    /\ handled = Idle
    /\ timeout_clients # <<>>
    /\ LET client_id == Head(timeout_clients)
           connection == get_connection(Registry, client_id)
       IN IF client_id \notin ConnIds(Registry)
          THEN UNCHANGED <<ws, close_code, connections, type_index, env_index>>
          ELSE /\ IF ws[connection.websocket] = "closed"
                  THEN UNCHANGED <<ws, close_code>>
                  ELSE /\ ws' = [ws EXCEPT ![connection.websocket] = "closed"]
                       /\ close_code' = [close_code EXCEPT
                                            ![connection.websocket] = 1001]
               /\ SetRegistry(remove_connection(Registry, client_id))
    /\ timeout_clients' = Tail(timeout_clients)
    /\ handled' = Idle
    /\ UNCHANGED <<max_connections, hpc, hid>>

\* ClientContext.__init__, and the client's tasks before their calls.
InitContext ==
    /\ now = 1
    /\ items = <<>>
    /\ contexts = [id \in ReqIds |-> 0]
    /\ stats = [total_requests |-> 0, completed_requests |-> 0,
                timeout_requests |-> 0, error_requests |-> 0]
    /\ tasks = [t \in Tasks |-> IdleTask]
    /\ callbacks = 0
    /\ returned = NoCall
    /\ seen = None
    /\ user_handlers = [k \in HandlerKinds |-> <<>>]
    /\ dispatching = NoDispatch

\* HubServer.__init__ and start(), before a websocket is accepted.
InitHub ==
    /\ ws = [s \in Socks |-> "idle"]
    /\ close_code = [s \in Socks |-> 0]
    /\ hpc = [s \in Socks |-> "none"]
    /\ hid = [s \in Socks |-> None]
    /\ connections = <<>>
    /\ type_index = [t \in ClientType |-> {}]
    /\ env_index = <<>>
    /\ timeout_clients = <<>>
    /\ handled = Idle
    /\ routing = [s \in Socks |-> NoRoute]
    /\ stalled = {}
    /\ sent = [s \in Socks |-> 0]
    /\ wire = [s \in Socks |-> <<>>]
    /\ dispatched = [s \in Socks |-> [from \in Socks |-> 0]]
    /\ running = TRUE
    /\ server = "serving"
    /\ stopping = "none"
    /\ stops = 0

Init ==
    /\ codec = <<>>
    /\ max_connections \in {NSock - 1, NSock}
    /\ InitHub
    /\ InitContext
    /\ connected = FALSE
    /\ client_websocket = "none"
    /\ cleanup_task = "none"
    /\ receiving = "none"

Next ==
    \/ \E s \in Socks, f \in FirstFrames : Handshake(s, f)
    \/ \E s \in Socks, f \in LoopFrames : Receive(s, f)
    \/ LoopAgain
    \/ \E s \in Socks : PeerClose(s)
    \/ \E s \in Socks : HandlerExit(s)

\* The handlers of the hub without its heartbeat sweeper.
Spec == Init /\ [][Next]_vars

\* The frames of the read loops when the heartbeat sweeper runs as well.
HubFrames ==
    HeartbeatFrames
    \cup { MessageFrame("a1", rcp, "event") : rcp \in {"broadcast"} \cup ClientIds }

NextHub ==
    \/ \E s \in Socks, f \in FirstFrames : Handshake(s, f)
    \/ \E s \in Socks, f \in HubFrames : Receive(s, f)
    \/ LoopAgain
    \/ \E s \in Socks : PeerClose(s)
    \/ \E s \in Socks : HandlerExit(s)
    \/ TimePasses
    \/ SweepScan
    \/ SweepClose

\* The handlers and the heartbeat sweeper.
SpecHub == Init /\ [][NextHub]_vars

\* ---------------------------------------------------------------- context
\* ContextItem(request_id, ...): status pending, a future that is not done.
\* future is the state of the asyncio.Future: "pending", "result",
\* "exception" or "cancelled"; result is its result or its exception.
ContextItem(request_id, request_type, timeout, callback) ==
    [request_id |-> request_id, request_type |-> request_type, status |-> PENDING, created_at |-> now,
     completed_at |-> NoTime, timeout |-> timeout, future |-> "pending",
     result |-> None, callback |-> callback]

\* ContextItem.elapsed_time
elapsed_time(item) ==
    IF item.completed_at # NoTime THEN item.completed_at - item.created_at
    ELSE now - item.created_at

\* ContextItem.is_expired
is_expired(item) == elapsed_time(item) > item.timeout

\* ContextItem.complete
complete(item, result) ==
    IF item.status # PENDING THEN item
    ELSE [item EXCEPT !.status = COMPLETED, !.completed_at = now,
                      !.future = IF item.future = "pending" THEN "result" ELSE @,
                      !.result = IF item.future = "pending" THEN result ELSE @]

\* ContextItem.error
error(item, exception) ==
    IF item.status # PENDING THEN item
    ELSE [item EXCEPT !.status = ERROR_STATUS, !.completed_at = now,
                      !.future = IF item.future = "pending" THEN "exception" ELSE @,
                      !.result = IF item.future = "pending" THEN exception ELSE @]

\* ContextItem.timeout_expired
timeout_expired(item) ==
    IF item.status # PENDING THEN item
    ELSE [item EXCEPT !.status = TIMEOUT, !.completed_at = now,
                      !.future = IF item.future = "pending" THEN "exception" ELSE @,
                      !.result = IF item.future = "pending" THEN "TimeoutError" ELSE @]

\* stats with one counter increased by one
Count(st, counter) == [st EXCEPT ![counter] = @ + 1]

\* The ids no item was ever created under.
UnusedIds == {id \in ReqIds : \A i \in 1..Len(items) : items[i].request_id # id}

\* ClientContext._generate_request_id: an id that was never used before.
generate_request_id ==
    IdOrder[CHOOSE k \in 1..Len(IdOrder) :
               /\ IdOrder[k] \in UnusedIds
               /\ \A j \in 1..(k - 1) : IdOrder[j] \notin UnusedIds]

\* ClientContext.create_request_context: the map and the statistics after the
\* call; the new item is the last of items' and takes the place in the map of
\* an older item of the same request id.
create_request_context(request_id, request_type, timeout, callback) ==
    /\ Len(items) < MaxItems
    /\ items' = Append(items, ContextItem(request_id, request_type, timeout, callback))
    /\ contexts' = [contexts EXCEPT ![request_id] = Len(items) + 1]
    /\ stats' = Count(stats, "total_requests")

\* ClientContext.create_request_context("event", callback = ..., request_id = ...),
\* called by the client's user with an id of the user's choice.
Create(request_id, timeout) ==
    /\ create_request_context(request_id, "event", timeout, TRUE)
    /\ returned' = NoCall
    /\ UNCHANGED <<now, tasks, callbacks>>
    /\ UNCHANGED hubvars
    /\ UNCHANGED clivars
    /\ seen' = None
    /\ UNCHANGED dispvars

\* ClientContext.get_context / self._contexts.get(request_id): the position of
\* the item stored under the id, 0 if there is none.
get_context(request_id) ==
    IF request_id \in DOMAIN contexts THEN contexts[request_id] ELSE 0

\* complete_request without its check of the status (context.py:214-218): the
\* call goes on to ContextItem.complete, the counter and the callback.
complete_request_no_status_check(request_id, result) ==
    LET i == get_context(request_id)
    IN /\ UNCHANGED <<now, contexts, tasks>>
       /\ UNCHANGED hubvars
       /\ UNCHANGED clivars
       /\ IF i = 0
          THEN /\ returned' = Returned("complete_request", request_id, FALSE)
               /\ UNCHANGED <<items, stats, callbacks>>
          ELSE /\ items' = [items EXCEPT ![i] = complete(@, result)]
               /\ stats' = Count(stats, "completed_requests")
               /\ callbacks' = IF items[i].callback THEN callbacks + 1 ELSE callbacks
               /\ returned' = Returned("complete_request", request_id, TRUE)

\* ClientContext.complete_request, called by the dispatch of an inbound
\* message with this correlation id: what the call does to the context.
complete_request(request_id, result) ==
    LET i == get_context(request_id)
    IN /\ UNCHANGED <<now, contexts, tasks>>
       /\ UNCHANGED hubvars
       /\ UNCHANGED clivars
       /\ IF i = 0 \/ items[i].status # PENDING
          THEN /\ returned' = Returned("complete_request", request_id, FALSE)
               /\ UNCHANGED <<items, stats, callbacks>>
          ELSE /\ items' = [items EXCEPT ![i] = complete(@, result)]
               /\ stats' = Count(stats, "completed_requests")
               /\ callbacks' = IF items[i].callback THEN callbacks + 1 ELSE callbacks
               /\ returned' = Returned("complete_request", request_id, TRUE)

\* ClientContext.error_request
error_request(request_id) ==
    LET i == contexts[request_id]
    IN /\ UNCHANGED <<now, contexts, tasks, callbacks>>
       /\ UNCHANGED hubvars
       /\ UNCHANGED clivars
       /\ seen' = None
       /\ UNCHANGED dispvars
       /\ IF i = 0 \/ items[i].status # PENDING
          THEN /\ returned' = NoCall
               /\ UNCHANGED <<items, stats>>
          ELSE /\ items' = [items EXCEPT ![i] = error(@, "Exception")]
               /\ stats' = Count(stats, "error_requests")
               /\ returned' = NoCall

\* The ids _cleanup_expired_contexts marks as timed out: the pending entries
\* of the map that are expired.
sweep_timed_out ==
    {id \in ReqIds : /\ contexts[id] # 0
                     /\ items[contexts[id]].status = PENDING
                     /\ is_expired(items[contexts[id]])}

\* The ids _cleanup_expired_contexts removes: the entries it marks as timed
\* out and the non-pending entries whose elapsed_time exceeds CleanupAge.
sweep_expired_ids ==
    sweep_timed_out
    \cup {id \in ReqIds : /\ contexts[id] # 0
                          /\ items[contexts[id]].status # PENDING
                          /\ elapsed_time(items[contexts[id]]) > CleanupAge}

\* ClientContext._cleanup_expired_contexts: one sweep of _cleanup_loop.
cleanup_expired_contexts ==
    /\ cleanup_task = "running"
    /\ items' = [i \in 1..Len(items) |->
                    IF /\ items[i].request_id \in sweep_timed_out
                       /\ contexts[items[i].request_id] = i
                    THEN timeout_expired(items[i]) ELSE items[i]]
    /\ stats' = [stats EXCEPT !.timeout_requests = @ + Cardinality(sweep_timed_out)]
    /\ contexts' = [id \in ReqIds |-> IF id \in sweep_expired_ids THEN 0 ELSE contexts[id]]
    /\ returned' = Returned("cleanup_expired_contexts", None, None)
    /\ UNCHANGED <<now, tasks, callbacks>>
    /\ UNCHANGED hubvars
    /\ UNCHANGED clivars
    /\ seen' = None
    /\ UNCHANGED dispvars

\* A timer of asyncio.wait_for is due, or a task it has cancelled has not run
\* yet: the event loop runs these before it sleeps again.
TimerDue ==
    \E t \in Tasks :
        \/ tasks[t].pc = "expired"
        \/ /\ tasks[t].pc = "waiting"
           /\ now >= tasks[t].deadline

\* The client's clock advances while the event loop has nothing due.
Tick ==
    /\ now < MaxTime
    /\ ~TimerDue
    /\ now' = now + 1
    /\ returned' = NoCall
    /\ UNCHANGED <<items, contexts, stats, tasks, callbacks>>
    /\ UNCHANGED hubvars
    /\ UNCHANGED clivars
    /\ seen' = None
    /\ UNCHANGED dispvars

\* A task that has left its call: what the call returned or raised.
Done(task, got, value) ==
    [task EXCEPT !.pc = "done", !.deadline = 0, !.got = got, !.value = value]

\* asyncio.wait_for(context_item.future, timeout) in wait_for_response with the
\* items its and the statistics st, when the future is done on entry or has
\* become done while the task waited: the task and the statistics after the
\* call.  A TimeoutError raised by the future itself enters the except clause
\* of wait_for_response like the TimeoutError of wait_for.
settle(task, its, st) ==
    LET item == its[task.item]
    IN IF item.future = "result"
       THEN [task |-> Done(task, "reply", item.result), stats |-> st]
       ELSE IF item.future = "cancelled"
            THEN [task |-> Done(task, "CancelledError", None), stats |-> st]
            ELSE IF item.result = "TimeoutError"
                 THEN [task |-> Done(task, "TimeoutError", None),
                       stats |-> Count(st, "timeout_requests")]
                 ELSE [task |-> Done(task, item.result, None), stats |-> st]

\* The first step of wait_for_response for task t on item i: the call is over
\* when the future is done, else the task waits with a timer.
enter_wait(t, call, i, timeout, its, st) ==
    LET task == [tasks[t] EXCEPT !.call = call, !.item = i]
    IN IF its[i].future # "pending"
       THEN /\ tasks' = [tasks EXCEPT ![t] = settle(task, its, st).task]
            /\ stats' = settle(task, its, st).stats
       ELSE /\ tasks' = [tasks EXCEPT ![t] =
                            [task EXCEPT !.pc = "waiting", !.deadline = now + timeout,
                                         !.waited = TRUE]]
            /\ stats' = st

\* ClientContext.wait_for_response(request_id, timeout), called by task t.
wait_for_response(t, request_id, timeout) ==
    /\ tasks[t].pc = "idle"
    /\ IF contexts[request_id] = 0
       THEN /\ tasks' = [tasks EXCEPT ![t] =
                            Done([@ EXCEPT !.call = "wait_for_response"], "KeyError", None)]
            /\ stats' = stats
       ELSE enter_wait(t, "wait_for_response", contexts[request_id], timeout, items, stats)
    /\ returned' = NoCall
    /\ UNCHANGED <<now, items, contexts, callbacks>>
    /\ UNCHANGED hubvars
    /\ UNCHANGED clivars
    /\ seen' = None
    /\ UNCHANGED dispvars

\* BaseClient.send_action_with_context(timeout, wait_for_outcome = True) up to
\* its write: the context is created and the action is on its way.
send_action_with_context(t, timeout) ==
    /\ tasks[t].pc = "idle"
    /\ UnusedIds # {}
    /\ create_request_context(generate_request_id, "action", timeout, FALSE)
    /\ tasks' = [tasks EXCEPT ![t] =
                    [@ EXCEPT !.pc = "sending", !.call = "send_action_with_context",
                              !.item = Len(items) + 1]]
    /\ returned' = NoCall
    /\ UNCHANGED <<now, callbacks>>
    /\ UNCHANGED hubvars
    /\ UNCHANGED clivars
    /\ seen' = None
    /\ UNCHANGED dispvars

\* send_action_with_context from send_envelope on: send_envelope raises
\* RuntimeError when the client is not connected and the error of the write
\* when the connection is closed; else wait_for_response is called with the
\* timeout the caller gave.
SendDone(t) ==
    /\ tasks[t].pc = "sending"
    /\ IF connected /\ client_websocket = "open"
       THEN enter_wait(t, "send_action_with_context", tasks[t].item,
                       items[tasks[t].item].timeout, items, stats)
       ELSE /\ tasks' = [tasks EXCEPT ![t] =
                            Done(@, IF connected /\ client_websocket # "none"
                                    THEN "ConnectionClosed" ELSE "RuntimeError", None)]
            /\ stats' = stats
    /\ returned' = NoCall
    /\ UNCHANGED <<now, items, contexts, callbacks>>
    /\ UNCHANGED hubvars
    /\ UNCHANGED clivars
    /\ seen' = None
    /\ UNCHANGED dispvars

\* The future a task waits for is done: the task resumes in wait_for.
WaitWake(t) ==
    /\ tasks[t].pc = "waiting"
    /\ items[tasks[t].item].future # "pending"
    /\ tasks' = [tasks EXCEPT ![t] = settle(tasks[t], items, stats).task]
    /\ stats' = settle(tasks[t], items, stats).stats
    /\ returned' = NoCall
    /\ UNCHANGED <<now, items, contexts, callbacks>>
    /\ UNCHANGED hubvars
    /\ UNCHANGED clivars
    /\ seen' = None
    /\ UNCHANGED dispvars

\* The timer of wait_for fires for task t: the future is cancelled, and the
\* task is resumed with TimeoutError in a later turn of the event loop.  A
\* timer that fires in the same turn as the timer of another waiter finds the
\* future cancelled already.
WaitExpire(t) ==
    /\ tasks[t].pc = "waiting"
    /\ now >= tasks[t].deadline
    /\ items[tasks[t].item].future \in {"pending", "cancelled"}
    /\ items' = [items EXCEPT ![tasks[t].item].future = "cancelled"]
    /\ tasks' = [tasks EXCEPT ![t].pc = "expired"]
    /\ returned' = NoCall
    /\ UNCHANGED <<now, contexts, stats, callbacks>>
    /\ UNCHANGED hubvars
    /\ UNCHANGED clivars
    /\ seen' = None
    /\ UNCHANGED dispvars

\* The except clause of wait_for_response: the item is marked as timed out,
\* timeout_requests is counted up and TimeoutError is raised to the caller.
WaitRaise(t) ==
    /\ tasks[t].pc = "expired"
    /\ items' = [items EXCEPT ![tasks[t].item] = timeout_expired(@)]
    /\ stats' = Count(stats, "timeout_requests")
    /\ tasks' = [tasks EXCEPT ![t] = Done(@, "TimeoutError", None)]
    /\ returned' = NoCall
    /\ UNCHANGED <<now, contexts, callbacks>>
    /\ UNCHANGED hubvars
    /\ UNCHANGED clivars
    /\ seen' = None
    /\ UNCHANGED dispvars

\* An inbound message: an outcome with its action_id, or an event with its
\* name and the request_id of its data; body tells two messages apart.  For
\* an action and a stream chunk, event is the name of the action or stream.
Msg(kind, event, id, body) == [kind |-> kind, event |-> event, id |-> id, body |-> body]

\* The events _handle_event_response returns on before it looks for a context.
SystemEvents == {"client_registered", "agent_joined"}

\* The inbound messages: outcomes that carry a request id of the client, an
\* id the client never issued or no id at all, and events that carry a request
\* id of the client.
Inbound ==
    {Msg("outcome", None, id, b) : id \in ReqIds, b \in Replies}
    \cup {Msg("outcome", None, id, "r1") : id \in {"q0", None}}
    \cup {Msg("event", e, id, "r2") : e \in {"reply", "agent_joined"}, id \in ReqIds}

\* _handle_outcome_response / _handle_event_response: the id the dispatch
\* passes to complete_request, None if it makes no call.
correlation_id(m) ==
    IF m.kind \notin {"outcome", "event"} THEN None
    ELSE IF m.kind = "event" /\ m.event \in SystemEvents THEN None ELSE m.id

\* The list on_action, on_outcome, on_event or on_stream goes through for a
\* message; on_message calls none of them for another message class.
handlers_for(m) == IF m.kind \in HandlerKinds THEN user_handlers[m.kind] ELSE <<>>

\* The per-kind hook on_message calls for a message.
hook(m) ==
    CASE m.kind = "action" -> "on_action"
      [] m.kind = "outcome" -> "on_outcome"
      [] m.kind = "event" -> "on_event"
      [] m.kind = "stream" -> "on_stream"
      [] OTHER -> None

\* on_message reaches the for loop over the handlers of m; with no handler
\* in the list it returns at once and nothing is under way.
begin_dispatch(m) ==
    IF handlers_for(m) = <<>> THEN NoDispatch
    ELSE [message |-> m, at |-> 1, called |-> <<>>]

\* on_message is between two handlers of the message it dispatches.
Dispatching == dispatching.at <= Len(handlers_for(dispatching.message))

\* on_message that leaves out on_outcome and on_event when the correlation
\* finds no pending context for the message.
on_message_skips_handlers(m) ==
    /\ receiving = "running"
    /\ ~Dispatching
    /\ dispatching' = begin_dispatch(m)
    /\ UNCHANGED user_handlers
    /\ seen' = IF /\ correlation_id(m) # None
                  /\ \/ get_context(correlation_id(m)) = 0
                     \/ items[get_context(correlation_id(m))].status # PENDING
               THEN None
               ELSE hook(m)
    /\ IF correlation_id(m) = None
       THEN /\ returned' = NoCall
            /\ UNCHANGED <<now, items, contexts, stats, tasks, callbacks>>
            /\ UNCHANGED hubvars
            /\ UNCHANGED clivars
       ELSE complete_request(correlation_id(m), m.body)

\* BaseClient.on_message for an outcome or an event that receive_loop has
\* read: the correlation with the contexts, then on_outcome or on_event with
\* the user's handlers.
on_message(m) ==
    /\ receiving = "running"
    /\ ~Dispatching
    /\ dispatching' = begin_dispatch(m)
    /\ UNCHANGED user_handlers
    /\ seen' = hook(m)
    /\ IF correlation_id(m) = None
       THEN /\ returned' = NoCall
            /\ UNCHANGED <<now, items, contexts, stats, tasks, callbacks>>
            /\ UNCHANGED hubvars
            /\ UNCHANGED clivars
       ELSE complete_request(correlation_id(m), m.body)

\* The decorators action(), outcome(), event() and stream(): a wrapper of the
\* user's function is appended to the list of the kind.  name is the filter
\* the decorator was called with, None for no filter; raises tells whether
\* the user's function raises an Exception when it is called.
register(kind, name, raises) ==
    /\ Len(user_handlers[kind]) < MaxHandlers
    /\ user_handlers' = [user_handlers EXCEPT
                            ![kind] = Append(@, [name |-> name, raises |-> raises])]
    /\ seen' = None
    /\ returned' = NoCall
    /\ UNCHANGED <<now, items, contexts, stats, tasks, callbacks, dispatching>>
    /\ UNCHANGED hubvars
    /\ UNCHANGED clivars

\* The value a handler's filter is compared with: message.action,
\* message.action_id, message.event or message.stream.
filter_key(m) == IF m.kind = "outcome" THEN m.id ELSE m.event

\* The wrapper calls the user's function for the message.
admits(handler, m) == handler.name = None \/ filter_key(m) = handler.name

\* The for loop of on_action, on_outcome, on_event and on_stream without its
\* try/except: an Exception of a handler leaves the loop and is caught by
\* _handle_envelope.
invoke_without_try ==
    LET m == dispatching.message
        handler == handlers_for(m)[dispatching.at]
    IN /\ Dispatching
       /\ dispatching' =
             [dispatching EXCEPT
                 !.at = IF admits(handler, m) /\ handler.raises
                        THEN Len(handlers_for(m)) + 1 ELSE @ + 1,
                 !.called = IF admits(handler, m) THEN Append(@, dispatching.at) ELSE @]
       /\ seen' = None
       /\ returned' = NoCall
       /\ UNCHANGED <<now, items, contexts, stats, tasks, callbacks, user_handlers>>
       /\ UNCHANGED hubvars
       /\ UNCHANGED clivars

\* One iteration of the for loop of on_action, on_outcome, on_event and
\* on_stream: the wrapper of the next handler is awaited, it calls the user's
\* function when its filter admits the message, and an Exception of the
\* function is logged.  After the last handler on_message returns and
\* receive_loop reads on.
invoke ==
    LET m == dispatching.message
        handler == handlers_for(m)[dispatching.at]
    IN /\ Dispatching
       /\ dispatching' =
             [dispatching EXCEPT
                 !.at = @ + 1,
                 !.called = IF admits(handler, m) THEN Append(@, dispatching.at) ELSE @]
       /\ seen' = None
       /\ returned' = NoCall
       /\ UNCHANGED <<now, items, contexts, stats, tasks, callbacks, user_handlers>>
       /\ UNCHANGED hubvars
       /\ UNCHANGED clivars

\* BaseClient.connect once websockets.connect has returned: the context
\* manager's sweeper is started unless one is running, the connect event is
\* sent and receive_loop is started.  When the connect event cannot be sent
\* (ok = FALSE) the except clause clears connected and connect raises.
connect(ok) ==
    /\ ~connected
    /\ client_websocket' = "open"
    /\ connected' = ok
    /\ cleanup_task' = "running"
    /\ receiving' = IF ok THEN "running" ELSE receiving
    /\ seen' = None
    /\ UNCHANGED dispvars
    /\ returned' = Returned("connect", None, ok)
    /\ UNCHANGED <<now, items, contexts, stats, tasks, callbacks>>
    /\ UNCHANGED hubvars

\* receive_loop ends because the hub has closed the connection.  After a
\* close with code 1000 or 1001 (clean) the iteration over the websocket just
\* ends; otherwise it raises ConnectionClosed and the loop clears connected.
ConnectionLost(clean) ==
    /\ receiving = "running"
    /\ client_websocket = "open"
    /\ receiving' = "ended"
    /\ client_websocket' = "closed"
    /\ connected' = (connected /\ clean)
    /\ seen' = None
    /\ UNCHANGED dispvars
    /\ returned' = NoCall
    /\ UNCHANGED <<now, items, contexts, stats, tasks, callbacks, cleanup_task>>
    /\ UNCHANGED hubvars

\* BaseClient.disconnect.  With connected set and a websocket, context.stop()
\* cancels the sweeper, the websocket is closed, which ends the iteration of
\* receive_loop, and connected and websocket are cleared; otherwise nothing
\* is done.
disconnect ==
    /\ IF connected /\ client_websocket # "none"
       THEN /\ cleanup_task' = "none"
            /\ client_websocket' = "none"
            /\ connected' = FALSE
            /\ receiving' = IF receiving = "running" THEN "ended" ELSE receiving
       ELSE UNCHANGED clivars
    /\ seen' = None
    /\ UNCHANGED dispvars
    /\ returned' = Returned("disconnect", None, None)
    /\ UNCHANGED <<now, items, contexts, stats, tasks, callbacks>>
    /\ UNCHANGED hubvars

NextCtx ==
    \/ \E id \in ReqIds : Create(id, 1)
    \/ \E m \in Inbound : on_message(m)
    \/ \E id \in ReqIds : error_request(id)
    \/ \E t \in Waiters, id \in ReqIds, timeout \in Timeouts :
          wait_for_response(t, id, timeout)
    \/ \E t \in Senders, timeout \in Timeouts : send_action_with_context(t, timeout)
    \/ \E t \in Tasks : SendDone(t)
    \/ \E t \in Tasks : WaitWake(t)
    \/ \E t \in Tasks : WaitExpire(t)
    \/ \E t \in Tasks : WaitRaise(t)
    \/ cleanup_expired_contexts
    \/ Tick

\* One client's context manager, the tasks that use it, its sweeper and its
\* clock.  The user creates contexts of its own with a timeout of one unit.
\* A client whose connect() has returned: the websocket is open, the
\* sweeper of the context manager and receive_loop run, and no request has
\* been made yet.  The hub's registry is left out of this specification.
InitCtx ==
    /\ codec = <<>>
    /\ max_connections = NSock
    /\ InitHub
    /\ InitContext
    /\ connected = TRUE
    /\ client_websocket = "open"
    /\ cleanup_task = "running"
    /\ receiving = "running"

SpecCtx == InitCtx /\ [][NextCtx]_vars

\* The connect events and the frames of the read loops of the clients the
\* sweeper watches.
SweepConnects == { ConnectFrame("a1", "agent", "w1"), ConnectFrame("a2", "agent", None) }

SweepFrames ==
    { Frame(HEARTBEAT, "a1", "hub", None, None, None, None),
      MessageFrame("a1", "a2", "action"),
      MessageFrame("a2", "a1", "action") }

NextSweep ==
    \/ \E s \in Socks, f \in SweepConnects : Handshake(s, f)
    \/ \E s \in Socks, f \in SweepFrames : Receive(s, f)
    \/ LoopAgain
    \/ \E s \in Socks : PeerClose(s)
    \/ \E s \in Socks : HandlerExit(s)
    \/ TimePasses
    \/ SweepScan
    \/ SweepClose

\* _heartbeat_checker has slept for heartbeat_interval and finds an overdue
\* connection.
ScanReady ==
    /\ timeout_clients = <<>>
    /\ \E i \in 1..Len(connections) : connections[i].overdue

\* The hub while it runs.  The event loop resumes every task that is ready:
\* a handler that has a frame to finish, a handler whose websocket is closed,
\* and the sweeper, which wakes up once per heartbeat_interval, collects the
\* connections that are overdue for as long as they stay overdue, and goes
\* through the ids it collected.  Clients may stay silent again and again.
SpecSweep ==
    /\ Init /\ [][NextSweep]_vars
    /\ WF_vars(LoopAgain)
    /\ \A s \in Socks :
          \/ []<>(~(hpc[s] = "loop" /\ ws[s] \in {"peer_gone", "closed"}))
          \/ []<><<HandlerExit(s)>>_vars
    /\ WF_vars(TimePasses)
    /\ ([]<>(~ScanReady) \/ []<><<SweepScan>>_vars)
    /\ ([]<>(timeout_clients = <<>>) \/ []<><<SweepClose>>_vars)

\* The connect events of a hub that several environments and their agents
\* join: clients that declare their env_id and clients that do not, an
\* environment whose client id is its env_id, two clients that claim the same
\* id, and a client_type the hub does not know.
JoinFrames ==
    { ConnectFrame("a1", "agent", "w1"),
      ConnectFrame("a2", "", None),
      ConnectFrame("aw1", "agent", None),
      ConnectFrame("demo", "agent", None),
      ConnectFrame("env_w1", "environment", None),
      ConnectFrame("w1", "environment", "w1"),
      ConnectFrame("w1", "agent", "w1"),
      ConnectFrame("w2", "environment", None),
      ConnectFrame("h1", "Human", None) }

\* The frames of the read loops while clients join.
JoinLoopFrames ==
    { Frame(HEARTBEAT, "a1", "hub", None, None, None, None),
      MessageFrame("a1", "broadcast", "event") }

NextJoin ==
    \/ \E s \in Socks, f \in JoinFrames : Handshake(s, f)
    \/ \E s \in Socks, f \in JoinLoopFrames : Receive(s, f)
    \/ LoopAgain
    \/ \E s \in Socks : PeerClose(s)
    \/ \E s \in Socks : HandlerExit(s)

\* The handlers of a hub that environments, agents and humans join.
SpecJoin == Init /\ [][NextJoin]_vars

\* ---------------------------------------------------------------- claims
Registered == {connections[i].websocket : i \in 1..Len(connections)}

\* The frame of the last step is addressed to one client id.
IsDirect(f) == Truthy(f.recipient) /\ f.recipient # "broadcast"

\* C1 (as amended): the registry holds at most one connection per client_id; a
\* handshake whose claimed id is already registered is closed with 1002, or
\* with 1013 when the registry is full, and is not registered; the connection
\* registered under that id stays registered, and a registered connection with
\* an open websocket is written every envelope addressed to its id.
C1_DuplicateRejected ==
    /\ \A i, j \in 1..Len(connections) :
          i # j => connections[i].client_id # connections[j].client_id
    /\ (handled.op = "handshake" /\ handled.was # 0) =>
          /\ ws[handled.from] = "closed"
          /\ close_code[handled.from] =
                IF Len(connections) >= max_connections THEN 1013 ELSE 1002
          /\ handled.from \notin Registered
          /\ websocket_of(Registry, handled.frame.sender) = handled.was
    /\ (/\ handled.op = "frame"
        /\ handled.frame.type # HEARTBEAT
        /\ IsDirect(handled.frame)
        /\ hid[handled.from] \in ConnIds(Registry)
        /\ handled.frame.recipient \in ConnIds(Registry)
        /\ ws[websocket_of(Registry, handled.frame.recipient)] = "open") =>
          handled.written = {websocket_of(Registry, handled.frame.recipient)}

\* C1 witness: a second handshake under a registered id has been closed with 1002.
C1_Witness ==
    /\ handled.op = "handshake"
    /\ handled.was # 0
    /\ close_code[handled.from] = 1002
    /\ ws[handled.was] = "open"

\* C1 as stated: every handshake under a registered id is closed with 1002.
C1_Original ==
    (handled.op = "handshake" /\ handled.was # 0) =>
        /\ close_code[handled.from] = 1002
        /\ handled.from \notin Registered
        /\ websocket_of(Registry, handled.frame.sender) = handled.was

\* C2: the three indices agree: an id is in the type index of a type iff it is
\* registered with that type; a registered id with an env_id is in the env
\* index set of that env_id; every id of an env index set is registered; no
\* env index set is empty.
C2_IndicesAgree ==
    /\ \A t \in ClientType :
          type_index[t] = {id \in ConnIds(Registry) :
                              get_connection(Registry, id).client_type = t}
    /\ \A i \in 1..Len(connections) :
          Truthy(connections[i].env_id) =>
              /\ connections[i].env_id \in DOMAIN env_index
              /\ connections[i].client_id \in env_index[connections[i].env_id]
    /\ \A e \in DOMAIN env_index :
          /\ env_index[e] # {}
          /\ env_index[e] \subseteq ConnIds(Registry)

\* C2 witness: connections with an env_id are registered after another
\* connection has been added and removed again.
C2_Witness ==
    /\ Len(connections) >= 2
    /\ DOMAIN env_index # {}
    /\ \E s \in Socks : hpc[s] = "exited" /\ close_code[s] \in {0, 1001}

\* The connection of websocket w, for w in Registered.
ConnOf(w) == connections[CHOOSE i \in 1..Len(connections) : connections[i].websocket = w]

\* The last step routed a broadcast envelope of one of the given message kinds
\* read from a websocket that is registered.
BroadcastOf(kinds) ==
    /\ handled.op = "frame"
    /\ handled.frame.type = MESSAGE
    /\ ~IsDirect(handled.frame)
    /\ handled.frame.mkind \in kinds
    /\ handled.from \in Registered

\* The websockets of the registered connections other than the sender's that
\* satisfy Keep.
Others(Keep(_)) ==
    {connections[i].websocket : i \in {j \in 1..Len(connections) :
        connections[j].websocket # handled.from /\ Keep(connections[j])}}

\* C3: every envelope the hub writes carries as sender the client id
\* registered for the connection it was read from, and the audience of a
\* broadcast is the one the rules give for that connection.
C3_SenderNotSpoofed ==
    handled.op = "frame" =>
        /\ handled.written # {} => handled.frame.sender = hid[handled.from]
        /\ BroadcastOf(MessageKinds) =>
              handled.written =
                  {websocket_of(Registry, id) :
                      id \in get_broadcast_targets(Registry,
                                 [handled.frame EXCEPT !.sender = hid[handled.from]])
                             \ {hid[handled.from]}}

\* C4: a broadcast envelope is never written to the websocket it was read from.
C4_NoSelfDelivery ==
    (handled.op = "frame" /\ ~IsDirect(handled.frame)) =>
        handled.from \notin handled.written

\* C5: an event broadcast by an environment with env_id E is written once to
\* every other registered connection with env_id E and to no other connection.
C5_EnvironmentEvent ==
    (/\ BroadcastOf({"event"})
     /\ ConnOf(handled.from).client_type = ENVIRONMENT
     /\ Truthy(ConnOf(handled.from).env_id)) =>
        handled.written =
            Others(LAMBDA c : c.env_id = ConnOf(handled.from).env_id)

\* C6: an action or outcome broadcast by an agent or an environment is written
\* exactly to the connections of the sender's env_id whose kind differs from
\* the sender's, and to nobody when the sender has no env_id.
C6_ActionOutcome ==
    (/\ BroadcastOf({"action", "outcome"})
     /\ ConnOf(handled.from).client_type \in {AGENT, ENVIRONMENT}) =>
        handled.written =
            IF Truthy(ConnOf(handled.from).env_id)
            THEN Others(LAMBDA c :
                     /\ c.env_id = ConnOf(handled.from).env_id
                     /\ c.client_type # ConnOf(handled.from).client_type)
            ELSE {}

\* C7: an event broadcast by an agent and a stream broadcast by a client that is
\* no human are written only to other connections with the sender's env_id,
\* and to nobody when the sender has no env_id.
C7_SameEnvOnly ==
    (\/ BroadcastOf({"event"}) /\ ConnOf(handled.from).client_type = AGENT
     \/ BroadcastOf({"stream"}) /\ ConnOf(handled.from).client_type # HUMAN) =>
        handled.written \subseteq
            IF Truthy(ConnOf(handled.from).env_id)
            THEN Others(LAMBDA c : c.env_id = ConnOf(handled.from).env_id)
            ELSE {}

\* C8: an event or stream broadcast by a human is written to every other
\* registered connection.
C8_HumanToAll ==
    (/\ BroadcastOf({"event", "stream"})
     /\ ConnOf(handled.from).client_type = HUMAN) =>
        handled.written = Others(LAMBDA c : TRUE)

\* A handler reads a frame of its read loop in this step.
FrameStep == handled = Idle /\ handled'.op = "frame"

\* connections with the heartbeat times left out.
Entries(conns) == [i \in 1..Len(conns) |-> [conns[i] EXCEPT !.overdue = FALSE]]

C10_UnknownRecipient ==
    [][(/\ FrameStep
        /\ handled'.frame.type # HEARTBEAT
        /\ IsDirect(handled'.frame)
        /\ handled'.frame.recipient \notin ConnIds(Registry)) =>
            /\ handled'.written = {}
            /\ Entries(connections') = Entries(connections)
            /\ type_index' = type_index
            /\ env_index' = env_index
            /\ hpc'[handled'.from] = "loop"
            /\ ws' = ws
            /\ close_code' = close_code]_vars

\* C10 witness: a registered client has sent an envelope to an id nobody is
\* registered under, while every opened websocket is still open.
C10_Witness ==
    /\ handled.op = "frame"
    /\ handled.frame.type = MESSAGE
    /\ IsDirect(handled.frame)
    /\ handled.frame.recipient \notin ConnIds(Registry)
    /\ hid[handled.from] \in ConnIds(Registry)
    /\ Len(connections) >= 2
    /\ \A s \in Socks : ws[s] \in {"idle", "open"}

\* The ids found in a type index or an env index.
Indexed(tidx, eidx) ==
    UNION {tidx[t] : t \in DOMAIN tidx} \cup UNION {eidx[e] : e \in DOMAIN eidx}

\* The ids the router tries to write an envelope to.
Attempts(reg, f) ==
    IF IsDirect(f) THEN {f.recipient} \cap ConnIds(reg) ELSE broadcast_attempts(reg, f)

\* C11: a failed write means the peer is gone: every target of a routed
\* envelope whose write fails is removed from the primary map, the type index
\* and the env index, every other target of the same envelope is written to
\* and stays registered, and a failed write to the recipient of a
\* point-to-point envelope delivers to nobody.
C11_FailedWriteRemoves ==
    [][(/\ FrameStep
        /\ handled'.frame.type # HEARTBEAT
        /\ hid[handled'.from] \in ConnIds(Registry)) =>
            LET f == handled'.frame
                attempts == Attempts(Registry, f)
                failed == {id \in attempts : ws[websocket_of(Registry, id)] # "open"}
            IN /\ handled'.failed = {websocket_of(Registry, id) : id \in failed}
               /\ handled'.written =
                      {websocket_of(Registry, id) : id \in attempts \ failed}
               /\ ConnIds(Registry') = ConnIds(Registry) \ failed
               /\ Indexed(type_index', env_index') \cap failed = {}
               /\ (IsDirect(f) /\ failed # {}) => handled'.written = {}]_vars

\* C11 witness: a broadcast has been written to one target while the write to
\* another target failed, and the failed target is no longer registered.
C11_Witness ==
    /\ handled.op = "frame"
    /\ ~IsDirect(handled.frame)
    /\ handled.written # {}
    /\ handled.failed # {}
    /\ handled.failed \cap Registered = {}
    /\ handled.written \subseteq Registered

\* The frame is an envelope of type message whose payload is an event named
\* connect.
IsConnectEvent(f) ==
    f.type = "message" /\ f.mkind = "event" /\ f.event = "connect"

\* A handler reads the first frame of its websocket in this step.
HandshakeStep == handled = Idle /\ handled'.op = "handshake"

\* C12: the registry never holds more than max_connections connections; a
\* connect event arriving while it holds max_connections is closed with 1013
\* and the registry stays as it is.
C12_ConnectionCap ==
    /\ [](Len(connections) <= max_connections)
    /\ [][(/\ HandshakeStep
            /\ IsConnectEvent(handled'.frame)
            /\ Len(connections) >= max_connections) =>
                /\ ws'[handled'.from] = "closed"
                /\ close_code'[handled'.from] = 1013
                /\ hpc'[handled'.from] = "exited"
                /\ Registry' = Registry]_vars

\* C12 witness: a connect event under an id nobody is registered under has
\* been closed with 1013 while max_connections clients are registered.
C12_Witness ==
    /\ handled.op = "handshake"
    /\ IsConnectEvent(handled.frame)
    /\ handled.was = 0
    /\ close_code[handled.from] = 1013
    /\ Len(connections) = max_connections
    /\ handled.from \notin Registered

\* C13: a websocket is registered only in the step that reads a connect event
\* as its first frame; any other first frame (a heartbeat or error envelope,
\* another message kind, another event, a frame that does not decode) closes
\* the websocket and leaves the registry as it is, and the handler of that
\* websocket has exited for good: only a handler in its read loop routes a
\* frame.
C13_ConnectOnly ==
    /\ [][Registered' \subseteq
              Registered \cup (IF HandshakeStep /\ IsConnectEvent(handled'.frame)
                               THEN {handled'.from} ELSE {})]_vars
    /\ [][(HandshakeStep /\ ~IsConnectEvent(handled'.frame)) =>
              /\ ws'[handled'.from] = "closed"
              /\ hpc'[handled'.from] = "exited"
              /\ Registry' = Registry]_vars
    /\ [][\A s \in Socks : hpc[s] = "exited" => hpc'[s] = "exited"]_vars
    /\ [][FrameStep => hpc[handled'.from] = "loop"]_vars

\* C13 witness: a first frame that does not decode, sent under an id nobody is
\* registered under, has closed its websocket while other clients are
\* registered.
C13_Witness ==
    /\ handled.op = "handshake"
    /\ ~Decodes(handled.frame)
    /\ handled.frame.sender \notin ConnIds(Registry)
    /\ ws[handled.from] = "closed"
    /\ hpc[handled.from] = "exited"
    /\ Len(connections) >= 1

\* A handler registers the client of its websocket in this step.
AcceptStep == HandshakeStep /\ handled'.from \in Registered'

\* The kind the hub takes a declared client_type for.
DeclaredType(f) ==
    IF Lower(f.client_type) \in {"environment", "human"} THEN Lower(f.client_type)
    ELSE "agent"

\* The positions in the registry of the environments, in registration order.
EnvPositions == {i \in 1..Len(connections) : connections[i].client_type = "environment"}

\* The least number of a non-empty set of numbers.
Least(S) == CHOOSE i \in S : \A j \in S : i <= j

\* The env_id the hub gives an agent that declares none.
InferredEnv(id) ==
    IF EnvPositions = {}
    THEN IF Contains("demo", Lower(id)) THEN "demo_world" ELSE None
    ELSE LET named == {i \in EnvPositions : Contains(connections[i].env_id, Lower(id))}
         IN IF Cardinality(EnvPositions) > 1 /\ named # {}
            THEN connections[Least(named)].env_id
            ELSE connections[Least(EnvPositions)].env_id

\* The env_id the hub stores for a connect event.
StoredEnv(f) ==
    IF Truthy(f.env_id) THEN f.env_id
    ELSE IF DeclaredType(f) = "environment" THEN Replace(f.sender, "env_", "")
    ELSE IF DeclaredType(f) = "human" THEN f.env_id
    ELSE InferredEnv(f.sender)

\* The registry's total count and the count of the kind t each grow by one in
\* this step, the counts of the other kinds stay.
CountsGrow(t) ==
    /\ Len(connections') = Len(connections) + 1
    /\ \A k \in ClientType :
          Cardinality(type_index'[k]) =
              Cardinality(type_index[k]) + (IF k = t THEN 1 ELSE 0)

\* C14 (as amended): for every accepted handshake the ClientInfo stored under
\* the client's id has the declared client_type, compared without regard to
\* case, and agent for any other client_type than environment and human; its
\* env_id is the declared one when one is declared, and otherwise the client
\* id without "env_" for an environment, none for a human, and for an agent
\* the env_id of the only registered environment, else of the first
\* registered environment whose env_id occurs in the lower-cased client id,
\* else of the first registered environment, else "demo_world" when the id
\* contains "demo", else none; total and kind count each grow by one.
C14_StoredInfo ==
    [][AcceptStep =>
          LET f == handled'.frame
              stored == get_connection(Registry', f.sender)
          IN /\ stored.websocket = handled'.from
             /\ stored.client_type = DeclaredType(f)
             /\ stored.env_id = StoredEnv(f)
             /\ CountsGrow(DeclaredType(f))]_vars

\* C14 witness: an agent that declared no env_id is registered with the env_id
\* of the second of two registered environments, whose env_id its id names.
C14_Witness ==
    /\ handled.op = "handshake"
    /\ handled.from \in Registered
    /\ handled.frame.env_id = None
    /\ ConnOf(handled.from).client_type = AGENT
    /\ Len(connections) = 3
    /\ connections[1].client_type = ENVIRONMENT
    /\ connections[2].client_type = ENVIRONMENT
    /\ connections[1].env_id # connections[2].env_id
    /\ ConnOf(handled.from).env_id = connections[2].env_id

\* C14 as stated: the stored ClientInfo has the declared client_type and the
\* declared env_id, none when none was declared, and the counts grow by one.
C14_Original ==
    [][AcceptStep =>
          LET f == handled'.frame
              stored == get_connection(Registry', f.sender)
          IN /\ stored.client_type = DeclaredType(f)
             /\ stored.env_id = f.env_id
             /\ CountsGrow(DeclaredType(f))]_vars

\* The websockets of the registered environments with env_id e.
EnvironmentsOf(e) ==
    {connections[i].websocket : i \in {j \in 1..Len(connections) :
        connections[j].client_type = ENVIRONMENT /\ connections[j].env_id = e}}

\* C15: when an agent with env_id E is accepted, one agent_joined event is
\* written to the registered environment of E whose websocket is open, and to
\* no connection that is not an environment of E.
C15_AgentJoined ==
    (/\ handled.op = "handshake"
     /\ handled.from \in Registered
     /\ ConnOf(handled.from).client_type = AGENT
     /\ Truthy(ConnOf(handled.from).env_id)) =>
        /\ handled.notified \subseteq EnvironmentsOf(ConnOf(handled.from).env_id)
        /\ \A w \in EnvironmentsOf(ConnOf(handled.from).env_id) :
              ws[w] = "open" => handled.notified # {}

\* The sweeper collects the overdue connections in this step.
ScanStep == timeout_clients = <<>> /\ timeout_clients' # <<>>

\* The sweeper closes the next collected client in this step.
CloseStep == timeout_clients # <<>> /\ timeout_clients' = Tail(timeout_clients)

\* The connection of websocket s is registered and its last_heartbeat is older
\* than 2 * heartbeat_interval.
Overdue(s) == s \in Registered /\ ConnOf(s).overdue

\* C16: a sweep collects every connection whose last_heartbeat is older than
\* 2 * heartbeat_interval and, for each collected id, closes the websocket
\* registered under it and removes the id from the primary map, the type index
\* and the env index; a registered connection that is overdue and sends no
\* further frame is eventually removed; an envelope addressed to an id that
\* is not registered is written to nobody.
C16_HeartbeatPruning ==
    /\ [][ScanStep =>
              \A i \in 1..Len(connections) :
                  connections[i].overdue =>
                      \E k \in 1..Len(timeout_clients') :
                          timeout_clients'[k] = connections[i].client_id]_vars
    /\ [][CloseStep =>
              LET id == Head(timeout_clients)
              IN /\ id \notin ConnIds(Registry')
                 /\ id \notin Indexed(type_index', env_index')
                 /\ id \in ConnIds(Registry) =>
                        ws'[websocket_of(Registry, id)] = "closed"]_vars
    /\ \A s \in Socks :
          Overdue(s) ~> (s \notin Registered \/ (handled.op = "frame" /\ handled.from = s))
    /\ [][(/\ FrameStep
            /\ IsDirect(handled'.frame)
            /\ handled'.frame.recipient \notin ConnIds(Registry)) =>
                handled'.written = {}]_vars

\* ------------------------------------------------------------ the client
\* Task t leaves the idle state in this step with a call of wait_for_response
\* that finds an entry under the id.
WaitIssued(t) ==
    /\ tasks[t].pc = "idle"
    /\ tasks'[t].call = "wait_for_response"
    /\ tasks'[t].item # 0

\* Item i is turned from pending into completed in this step.
Completes(i) ==
    /\ i <= Len(items)
    /\ items[i].status = PENDING
    /\ items'[i].status = COMPLETED

\* The call of task t is over and has returned the reply the item of the task
\* was completed with.
ReturnedReply(tk, item) ==
    /\ tk.pc = "done"
    /\ tk.got = "reply"
    /\ tk.value = item.result
    /\ item.result \in Replies

\* C17: when the outcome of an action sent with send_action_with_context
\* arrives before the timer of the wait has fired, the entry becomes completed
\* with completed_at >= created_at, completed_requests grows by one and the
\* call returns that outcome; and a wait issued on an entry that is completed
\* already returns the stored reply at once.
C17_OutcomeReturned ==
    /\ [][\A t \in Senders :
             (/\ tasks[t].pc \in {"sending", "waiting"}
              /\ Completes(tasks[t].item)
              /\ items[tasks[t].item].future = "pending") =>
                 /\ items'[tasks[t].item].completed_at >= items'[tasks[t].item].created_at
                 /\ items'[tasks[t].item].result \in Replies
                 /\ stats'.completed_requests = stats.completed_requests + 1]_vars
    /\ [](\A t \in Senders :
             (tasks[t].pc = "done" /\ items[tasks[t].item].future = "result") =>
                 ReturnedReply(tasks[t], items[tasks[t].item]))
    /\ [][\A t \in Waiters :
             (WaitIssued(t) /\ items[tasks'[t].item].status = COMPLETED) =>
                 ReturnedReply(tasks'[t], items[tasks'[t].item])]_vars

\* The status the context map reports for the id: that of the item stored
\* under it.
StatusOf(ctx, its, id) == its[ctx[id]].status

\* C18: once the status the context map reports for a request id has left
\* pending, the map reports that same status for the id in every later step
\* in which it holds the id; and no two items of a client carry the same
\* request id.
C18_StatusTerminal ==
    /\ [][\A id \in ReqIds :
             (/\ contexts[id] # 0
              /\ contexts'[id] # 0
              /\ StatusOf(contexts, items, id) # PENDING) =>
                 StatusOf(contexts', items', id) = StatusOf(contexts, items, id)]_vars
    /\ [](\A i, j \in 1..Len(items) :
             items[i].request_id = items[j].request_id => i = j)

\* The last step was a call of complete_request for the id, made while the
\* map held a non-pending entry under the id.
CompleteOnSettled(id) ==
    /\ returned'.call = "complete_request"
    /\ returned'.request_id = id
    /\ contexts[id] # 0
    /\ StatusOf(contexts, items, id) # PENDING

\* C19: complete_request on an entry that is not pending returns False and
\* leaves every item (status, future and completed_at), the map, the
\* completed_requests counter with the other statistics and the number of
\* scheduled callbacks as they were; so an entry whose status is timeout is not
\* turned into completed.
C19_CompleteIdempotent ==
    [][\A id \in ReqIds :
          CompleteOnSettled(id) =>
              /\ returned'.value = FALSE
              /\ items' = items
              /\ contexts' = contexts
              /\ stats' = stats
              /\ callbacks' = callbacks]_vars

\* complete_request has returned False for an entry that had timed out, and
\* the entry still has the status timeout.
C19_Witness ==
    /\ returned.call = "complete_request"
    /\ returned.value = FALSE
    /\ returned.request_id \in ReqIds
    /\ contexts[returned.request_id] # 0
    /\ StatusOf(contexts, items, returned.request_id) = TIMEOUT

\* The items whose status is timeout.
TimedOut == {i \in 1..Len(items) : items[i].status = TIMEOUT}

\* No reply and no error has arrived for any request of the client.
NoReplyYet == stats.completed_requests = 0 /\ stats.error_requests = 0

\* C20: while no reply and no error arrives, a call that has failed with the
\* timeout error leaves its entry with the status timeout, and
\* timeout_requests counts every timed-out request exactly once, whether the
\* waiter or the sweeper found the expiry and however many tasks waited.
C20_TimeoutCountedOnce ==
    NoReplyYet =>
        /\ \A t \in Tasks :
              (tasks[t].pc = "done" /\ tasks[t].got = "TimeoutError") =>
                  items[tasks[t].item].status = TIMEOUT
        /\ stats.timeout_requests = Cardinality(TimedOut)

\* Tasks t and u have both been suspended in wait_for_response on the same
\* item, which was pending when each of them began to wait, and both calls
\* are over.
WaitedTogether(t, u) ==
    /\ t # u
    /\ tasks[t].waited /\ tasks[u].waited
    /\ tasks[t].item = tasks[u].item
    /\ tasks[t].pc = "done" /\ tasks[u].pc = "done"

\* C21: two tasks that wait on one pending entry observe the same outcome:
\* both get the same reply, or both fail with the timeout error (also when
\* their timeouts differ and the shorter one elapses first), or both get the
\* same exception.
C21_SameOutcome ==
    \A t, u \in Tasks :
        WaitedTogether(t, u) =>
            /\ tasks[t].got = tasks[u].got
            /\ tasks[t].value = tasks[u].value

\* The last step was a sweep of the context map.
SweepStep == returned'.call = "cleanup_expired_contexts"

\* The map holds, under the id, a non-pending item that was created more than
\* CleanupAge ago.
Outdated(ctx, its, id) ==
    /\ ctx[id] # 0
    /\ its[ctx[id]].status # PENDING
    /\ now - its[ctx[id]].created_at > CleanupAge

\* C22: the periodic sweeper removes every non-pending entry (completed,
\* timeout or error) that is older than 5 minutes, however quickly the request
\* was completed: after a sweep the map holds no such entry, so none stays in
\* the map while the sweeper runs.
C22_SweepBoundsMap ==
    [][SweepStep => \A id \in ReqIds : ~Outdated(contexts', items', id)]_vars

\* The map holds, under the id, a pending item that is older than its timeout.
Overtime(id) ==
    /\ contexts[id] # 0
    /\ items[contexts[id]].status = PENDING
    /\ now - items[contexts[id]].created_at > items[contexts[id]].timeout

\* C23: a sweep turns every pending entry older than its timeout into timeout
\* and puts the timeout error into a future that is still awaited; the entry
\* stays in the map, where get(request_id) shows the status timeout; and a
\* sweep removes an entry only if it was non-pending and older than 5 minutes.
C23_SweepKeepsTimedOut ==
    [][SweepStep =>
          \A id \in ReqIds :
              /\ Overtime(id) =>
                    /\ items'[contexts[id]].status = TIMEOUT
                    /\ items[contexts[id]].future = "pending" =>
                          /\ items'[contexts[id]].future = "exception"
                          /\ items'[contexts[id]].result = "TimeoutError"
                    /\ contexts'[id] = contexts[id]
              /\ (contexts[id] # 0 /\ contexts'[id] = 0) =>
                    Outdated(contexts, items, id)]_vars

\* The last step dispatched an inbound message whose correlation id has no
\* pending entry in the map: none at all, or one that has left pending.
UnmatchedStep ==
    /\ returned'.call = "complete_request"
    /\ \/ returned'.request_id \notin ReqIds
       \/ contexts[returned'.request_id] = 0
       \/ StatusOf(contexts, items, returned'.request_id) # PENDING

\* C24: the dispatch of an inbound outcome or event whose correlation id
\* matches no pending context entry changes no item, no entry of the map and
\* no statistic, wakes no waiting task and schedules no callback; receive_loop
\* goes on, and on_outcome or on_event still runs the user's handlers.
C24_UnmatchedDiscarded ==
    [][UnmatchedStep =>
          /\ returned'.value = FALSE
          /\ items' = items
          /\ contexts' = contexts
          /\ stats' = stats
          /\ tasks' = tasks
          /\ callbacks' = callbacks
          /\ receiving' = "running"
          /\ seen' \in {"on_outcome", "on_event"}]_vars

\* An outcome with an id the client never issued has been dispatched while a
\* task waits on a pending entry; the task still waits.
C24_Witness ==
    /\ returned.call = "complete_request"
    /\ returned.request_id = "q0"
    /\ seen = "on_outcome"
    /\ \E t \in Tasks :
          /\ tasks[t].pc = "waiting"
          /\ items[tasks[t].item].status = PENDING

\* ---------------------------------------------------------------- wire
\* The hub's writes one at a time: route_envelope suspends at every
\* websocket.send, the other handlers run in between, and each client
\* dispatches what was written to its websocket.

\* The number of envelopes a client writes.
MaxSent == 2

\* The clients that have connected, in the order of their handshakes.
WireConnects ==
    << ConnectFrame("env_w1", "environment", None),
       ConnectFrame("a1", "agent", "w1"),
       ConnectFrame("a2", "agent", "w1") >>

WireIds == {WireConnects[k].sender : k \in 1..Len(WireConnects)}

\* The registry after the first k of these handshakes, the k-th on websocket k.
RECURSIVE WireRegistry(_)
WireRegistry(k) ==
    IF k = 0
    THEN [connections |-> <<>>, type_index |-> [t \in ClientType |-> {}],
          env_index |-> <<>>]
    ELSE LET reg == WireRegistry(k - 1)
             f == WireConnects[k]
         IN add_connection(reg, k, create_client_info_from_connect(reg, f.sender, f))

\* The envelopes the clients write: the chunks of a stream, to everybody or
\* to one client.  The second agent only reads.
WireFrames ==
    { MessageFrame(snd, rcp, "stream") :
          snd \in {"env_w1", "a1"}, rcp \in {"broadcast", "a2"} }

\* The websockets whose client goes away: that of the second agent.
WireLeavers == {3}

\* The number of clients that stop reading at the same time.
MaxStalled == 1

\* The orders in which the keys of a dict built from a set are iterated.
Orderings(S) ==
    { q \in [1..Cardinality(S) -> S] : \A i, j \in DOMAIN q : q[i] = q[j] => i = j }

\* An envelope on a websocket: the websocket it was read from and its number
\* among the envelopes read from there, which is the sequence of a chunk.
Chunk(from, sequence) == [from |-> from, sequence |-> sequence]

\* The Connection objects a routing call holds, in the order it writes to
\* them: the recipient of a direct envelope, the broadcast targets without
\* the sender otherwise.
route_targets(reg, envelope) ==
    IF Truthy(envelope.recipient) /\ envelope.recipient # "broadcast"
    THEN IF envelope.recipient \in ConnIds(reg)
         THEN {<<get_connection(reg, envelope.recipient)>>}
         ELSE {<<>>}
    ELSE { [i \in DOMAIN q |-> get_connection(reg, q[i])] :
              q \in Orderings(broadcast_attempts(reg, envelope)) }

\* Connection.send_envelope fails: connected becomes False on the object.
mark_failed(reg, websocket) ==
    [reg EXCEPT !.connections =
        [i \in 1..Len(reg.connections) |->
            IF reg.connections[i].websocket = websocket
            THEN [reg.connections[i] EXCEPT !.connected = FALSE]
            ELSE reg.connections[i]]]

\* TRUE iff the Connection object made for the websocket is marked connected;
\* an object that left the registry was marked when it left or is closed.
still_connected(reg, websocket) ==
    \A i \in 1..Len(reg.connections) :
        reg.connections[i].websocket = websocket => reg.connections[i].connected

\* _handle_client reads the next frame of websocket s and calls
\* route_envelope, which runs up to its first websocket.send.
RouteBegin(s, f) ==
    /\ UNCHANGED ctxvars
    /\ UNCHANGED codec
    /\ UNCHANGED stopvars
    /\ handled = Idle
    /\ hpc[s] = "loop"
    /\ ws[s] = "open"
    /\ routing[s] = NoRoute
    /\ sent[s] < MaxSent
    /\ f.sender = hid[s]
    /\ sent' = [sent EXCEPT ![s] = @ + 1]
    /\ IF hid[s] \notin ConnIds(Registry)
       THEN UNCHANGED <<connections, type_index, env_index, routing>>
       ELSE LET touched == update_heartbeat(Registry, hid[s])
            IN /\ SetRegistry(touched)
               /\ \E targets \in route_targets(touched, f) :
                     routing' = [routing EXCEPT ![s] =
                        IF targets = <<>> THEN NoRoute
                        ELSE [sequence |-> sent[s] + 1, targets |-> targets,
                              failed_clients |-> {}]]
    /\ UNCHANGED <<max_connections, ws, close_code, hpc, hid, timeout_clients, handled,
                   stalled, wire, dispatched>>

\* The routing call of websocket s after the write to its i-th remaining
\* target: the loop goes on, or the failed clients are removed and the call
\* returns.
route_continue(s, reg, failed_clients) ==
    IF Len(routing[s].targets) > 1
    THEN /\ routing' = [routing EXCEPT ![s].targets = Tail(@),
                                       ![s].failed_clients = failed_clients]
         /\ SetRegistry(reg)
    ELSE /\ routing' = [routing EXCEPT ![s] = NoRoute]
         /\ SetRegistry(remove_all(reg, failed_clients))

\* route_envelope of websocket s writes to the i-th of its remaining targets.
\* The loops of _route_broadcast and _route_to_specific_client await one
\* send_envelope after the other: only the first remaining target is written
\* to, and a write to a websocket whose peer does not drain does not return.
RouteWrite(s, i) ==
    /\ UNCHANGED ctxvars
    /\ UNCHANGED codec
    /\ UNCHANGED stopvars
    /\ handled = Idle
    /\ routing[s] # NoRoute
    /\ i = 1
    /\ LET connection == routing[s].targets[i]
           to == connection.websocket
       IN IF still_connected(Registry, to) /\ ws[to] = "open"
          THEN /\ to \notin stalled
               /\ wire' = [wire EXCEPT ![to] =
                              Append(@, Chunk(s, routing[s].sequence))]
               /\ route_continue(s, Registry, routing[s].failed_clients)
          ELSE /\ UNCHANGED wire
               /\ route_continue(s, mark_failed(Registry, to),
                      routing[s].failed_clients \cup {connection.client_id})
    /\ UNCHANGED <<max_connections, ws, close_code, hpc, hid, timeout_clients, handled,
                   stalled, sent, dispatched>>

\* The client of websocket r stops reading: the buffers towards it fill up.
Stall(r) ==
    /\ UNCHANGED ctxvars
    /\ UNCHANGED codec
    /\ UNCHANGED stopvars
    /\ handled = Idle
    /\ ws[r] = "open"
    /\ r \notin stalled
    /\ Cardinality(stalled) < MaxStalled
    /\ stalled' = stalled \cup {r}
    /\ UNCHANGED <<max_connections, ws, close_code, hpc, hid, connections, type_index,
                   env_index, timeout_clients, handled, routing, sent, wire,
                   dispatched>>

\* The client of websocket r reads again.
Drain(r) ==
    /\ UNCHANGED ctxvars
    /\ UNCHANGED codec
    /\ UNCHANGED stopvars
    /\ handled = Idle
    /\ r \in stalled
    /\ stalled' = stalled \ {r}
    /\ UNCHANGED <<max_connections, ws, close_code, hpc, hid, connections, type_index,
                   env_index, timeout_clients, handled, routing, sent, wire,
                   dispatched>>

\* receive_loop that hands the newest envelope on the websocket to the
\* handlers first.
Dispatch_newest_first(r) ==
    /\ UNCHANGED ctxvars
    /\ UNCHANGED codec
    /\ UNCHANGED stopvars
    /\ handled = Idle
    /\ wire[r] # <<>>
    /\ LET chunk == wire[r][Len(wire[r])]
       IN dispatched' = [dispatched EXCEPT ![r][chunk.from] = chunk.sequence]
    /\ wire' = [wire EXCEPT ![r] = SubSeq(@, 1, Len(@) - 1)]
    /\ UNCHANGED <<max_connections, ws, close_code, hpc, hid, connections, type_index,
                   env_index, timeout_clients, handled, routing, stalled, sent>>

\* receive_loop of the client of websocket r: the next envelope on the
\* websocket is decoded and _handle_envelope is awaited before the next one
\* is read.
Dispatch(r) ==
    /\ UNCHANGED ctxvars
    /\ UNCHANGED codec
    /\ UNCHANGED stopvars
    /\ handled = Idle
    /\ wire[r] # <<>>
    /\ LET chunk == Head(wire[r])
       IN dispatched' = [dispatched EXCEPT ![r][chunk.from] = chunk.sequence]
    /\ wire' = [wire EXCEPT ![r] = Tail(@)]
    /\ UNCHANGED <<max_connections, ws, close_code, hpc, hid, connections, type_index,
                   env_index, timeout_clients, handled, routing, stalled, sent>>

NextWire ==
    \/ \E s \in Socks, f \in WireFrames : RouteBegin(s, f)
    \/ \E s \in Socks, i \in 1..NSock : RouteWrite(s, i)
    \/ \E r \in Socks : Stall(r)
    \/ \E r \in Socks : Drain(r)
    \/ \E r \in Socks : Dispatch(r)
    \/ \E s \in WireLeavers : PeerClose(s)
    \/ \E s \in WireLeavers : HandlerExit(s)

\* The hub once the clients of WireConnects have registered and their
\* handlers await the first frame.
InitWire ==
    /\ codec = <<>>
    /\ max_connections = NSock
    /\ InitContext
    /\ connected = FALSE
    /\ client_websocket = "none"
    /\ cleanup_task = "none"
    /\ receiving = "none"
    /\ ws = [s \in Socks |-> IF s <= Len(WireConnects) THEN "open" ELSE "idle"]
    /\ close_code = [s \in Socks |-> 0]
    /\ hpc = [s \in Socks |-> IF s <= Len(WireConnects) THEN "loop" ELSE "none"]
    /\ hid = [s \in Socks |-> IF s <= Len(WireConnects) THEN WireConnects[s].sender
                              ELSE None]
    /\ connections = WireRegistry(Len(WireConnects)).connections
    /\ type_index = WireRegistry(Len(WireConnects)).type_index
    /\ env_index = WireRegistry(Len(WireConnects)).env_index
    /\ timeout_clients = <<>>
    /\ handled = Idle
    /\ routing = [s \in Socks |-> NoRoute]
    /\ stalled = {}
    /\ sent = [s \in Socks |-> 0]
    /\ wire = [s \in Socks |-> <<>>]
    /\ dispatched = [s \in Socks |-> [from \in Socks |-> 0]]
    /\ running = TRUE
    /\ server = "serving"
    /\ stopping = "none"
    /\ stops = 0

\* The hub with its writes one at a time, and the clients that read them.
SpecWire == InitWire /\ [][NextWire]_vars

\* ---------------------------------------------------------------- C25
\* The envelopes on websocket r that its client has not dispatched yet are,
\* sender by sender, in the order the hub read them, and newer than the last
\* one dispatched.
InOrder(r) ==
    /\ \A i, j \in 1..Len(wire[r]) :
          i < j /\ wire[r][i].from = wire[r][j].from
              => wire[r][i].sequence < wire[r][j].sequence
    /\ \A i \in 1..Len(wire[r]) :
          wire[r][i].sequence > dispatched[r][wire[r][i].from]

\* C25: the envelopes one client sends to one recipient, directly or by
\* broadcast, are written to the recipient's websocket and dispatched to its
\* handlers in the order the sender wrote them, whatever the other senders
\* do: the sequence of the chunks of one sender's stream never decreases at
\* a receiver.
C25_PairFifo ==
    [][/\ \A r \in Socks : InOrder(r)'
       /\ \A r, s \in Socks : dispatched'[r][s] >= dispatched[r][s]]_vars

\* A client has dispatched two chunks of one sender and, in between or
\* before, a chunk of another sender whose next chunk is still on the
\* websocket.
C25_Witness ==
    \E r, s, o \in Socks :
        /\ s # o
        /\ dispatched[r][s] >= 2
        /\ dispatched[r][o] = 1
        /\ \E i \in 1..Len(wire[r]) : wire[r][i] = Chunk(o, 2)

\* ---------------------------------------------------------------- C26
\* The routing call of websocket s is suspended in a write to a peer that
\* does not drain its websocket.
Blocked(s) ==
    /\ routing[s] # NoRoute
    /\ LET to == routing[s].targets[1].websocket
       IN /\ to \in stalled
          /\ still_connected(Registry, to)
          /\ ws[to] = "open"

\* While the routing call of websocket s is blocked, each of its other
\* targets that drains can be written to.
OtherTargetsWritten(s) ==
    \A i \in 2..Len(routing[s].targets) :
        routing[s].targets[i].websocket \notin stalled => ENABLED RouteWrite(s, i)

\* While the routing call of websocket s is blocked, the handler of another
\* websocket reads its next frame, and its routing call writes to a target
\* that drains.
OtherSendersRouted(s) ==
    \A o \in Socks \ {s} :
        /\ \A f \in WireFrames :
              /\ hpc[o] = "loop"
              /\ ws[o] = "open"
              /\ routing[o] = NoRoute
              /\ sent[o] < MaxSent
              /\ f.sender = hid[o]
              => ENABLED RouteBegin(o, f)
        /\ routing[o] # NoRoute /\ routing[o].targets[1].websocket \notin stalled
              => ENABLED RouteWrite(o, 1)

\* C26: a slow peer does not stall the hub: while a write to one broadcast
\* target is blocked because the peer does not drain its websocket, the other
\* targets of the same broadcast are written to and the envelopes of other
\* senders are routed.
C26_SlowPeerAlone ==
    \A s \in Socks : Blocked(s) => OtherTargetsWritten(s) /\ OtherSendersRouted(s)

\* ---------------------------------------------------------------- C27
\* The connection of websocket s is live: its websocket is open and its
\* heartbeat has not timed out.
Live(s) == s \in Registered /\ ws[s] = "open" /\ ~ConnOf(s).overdue

\* C27: a connection leaves the registry only for a reason of its own: its
\* handler exits, a write to it fails or its heartbeat times out.  A live
\* connection, also one registered under the client id of a connection that
\* was pruned before, is neither removed nor closed by what happens to
\* another connection.
C27_RemovalLocal ==
    [][\A s \in Socks :
          Live(s) => s \in Registered' /\ ws'[s] # "closed"]_vars

\* ---------------------------------------------------------------- stop
\* HubServer.stop, called by one caller, one call after the other.

\* The number of stop() calls.
MaxStops == 2

\* The clients that connect while the hub is stopped.
StopConnects ==
    { ConnectFrame("a1", "agent", "w1"),
      ConnectFrame("env_w1", "environment", None) }

\* The frames of the read loops while the hub is stopped.
StopFrames ==
    { Frame(HEARTBEAT, "a1", "hub", None, None, None, None),
      MessageFrame("a1", "broadcast", "event") }

\* websocket.close(code=1001) on each of the given websockets that is not
\* closed yet.
close_all(socks) ==
    /\ ws' = [s \in Socks |-> IF s \in socks /\ ws[s] \in {"open", "peer_gone"}
                              THEN "closed" ELSE ws[s]]
    /\ close_code' = [s \in Socks |-> IF s \in socks /\ ws[s] = "open"
                                      THEN 1001 ELSE close_code[s]]

\* The websockets the hub has accepted and not closed.
Accepted == {s \in Socks : ws[s] \in {"open", "peer_gone"}}

\* stop() on a running hub, up to its first await: running is cleared, every
\* registered connection is removed and its websocket asked to close; without
\* a registered connection the call goes on to server.close(), which closes
\* every websocket of the server.
StopBegin ==
    /\ UNCHANGED ctxvars
    /\ UNCHANGED codec
    /\ UNCHANGED wirevars
    /\ handled = Idle
    /\ running
    /\ stopping = "none"
    /\ stops < MaxStops
    /\ running' = FALSE
    /\ SetRegistry(remove_all(Registry, ConnIds(Registry)))
    /\ IF connections # <<>>
       THEN /\ close_all({connections[i].websocket : i \in 1..Len(connections)})
            /\ stopping' = "gather"
            /\ UNCHANGED server
       ELSE /\ close_all(Accepted)
            /\ stopping' = "wait_closed"
            /\ server' = "closing"
    /\ UNCHANGED <<max_connections, hpc, hid, timeout_clients, handled, stops>>

\* The close tasks of stop() are done: server.close() stops accepting and
\* closes every websocket of the server.
StopGathered ==
    /\ UNCHANGED ctxvars
    /\ UNCHANGED codec
    /\ UNCHANGED wirevars
    /\ handled = Idle
    /\ stopping = "gather"
    /\ close_all(Accepted)
    /\ stopping' = "wait_closed"
    /\ server' = "closing"
    /\ UNCHANGED <<max_connections, hpc, hid, connections, type_index, env_index,
                   timeout_clients, handled, running, stops>>

\* stop() that does not await server.wait_closed().
StopReturn_without_wait ==
    /\ UNCHANGED ctxvars
    /\ UNCHANGED codec
    /\ UNCHANGED wirevars
    /\ handled = Idle
    /\ stopping = "wait_closed"
    /\ server' = "none"
    /\ stopping' = "none"
    /\ running' = FALSE
    /\ stops' = stops + 1
    /\ UNCHANGED <<max_connections, ws, close_code, hpc, hid, connections, type_index,
                   env_index, timeout_clients, handled>>

\* server.wait_closed() returns once every connection handler has returned,
\* and stop() returns.
StopReturn ==
    /\ UNCHANGED ctxvars
    /\ UNCHANGED codec
    /\ UNCHANGED wirevars
    /\ handled = Idle
    /\ stopping = "wait_closed"
    /\ \A s \in Socks : hpc[s] # "loop"
    /\ server' = "none"
    /\ stopping' = "none"
    /\ running' = FALSE
    /\ stops' = stops + 1
    /\ UNCHANGED <<max_connections, ws, close_code, hpc, hid, connections, type_index,
                   env_index, timeout_clients, handled>>

\* stop() on a hub that is not running returns at once.
StopAgain ==
    /\ UNCHANGED ctxvars
    /\ UNCHANGED codec
    /\ UNCHANGED wirevars
    /\ handled = Idle
    /\ ~running
    /\ stopping = "none"
    /\ stops < MaxStops
    /\ stops' = stops + 1
    /\ UNCHANGED <<max_connections, ws, close_code, hpc, hid, connections, type_index,
                   env_index, timeout_clients, handled, running, server, stopping>>

NextStop ==
    \/ \E s \in Socks, f \in StopConnects : Handshake(s, f)
    \/ \E s \in Socks, f \in StopFrames : Receive(s, f)
    \/ LoopAgain
    \/ \E s \in Socks : PeerClose(s)
    \/ \E s \in Socks : HandlerExit(s)
    \/ TimePasses
    \/ SweepScan
    \/ SweepClose
    \/ StopBegin
    \/ StopGathered
    \/ StopReturn
    \/ StopAgain

\* The hub, its heartbeat sweeper and a caller of stop().
SpecStop == Init /\ [][NextStop]_vars

\* ---------------------------------------------------------------- C28
\* A stop() call returns at once: the hub is not running.
StopAgainStep == ~running /\ stopping = "none" /\ stops' # stops

\* C28: once stop() has returned, the registry holds no connection, also none
\* of a client that registered while stop() ran, no connection handler is
\* left, and the heartbeat sweeper starts no sweep and closes and removes
\* nothing; a stop() on a hub that is not running changes nothing.
C28_StopComplete ==
    /\ [](stops > 0 =>
             /\ connections = <<>>
             /\ Indexed(type_index, env_index) = {}
             /\ \A s \in Socks : hpc[s] # "loop")
    /\ [][stops > 0 =>
             /\ ~ScanStep
             /\ ws' = ws
             /\ close_code' = close_code
             /\ Registry' = Registry]_vars
    /\ [][StopAgainStep =>
             /\ UNCHANGED <<max_connections, ws, close_code, hpc, hid, connections,
                            type_index, env_index, timeout_clients, handled>>
             /\ UNCHANGED <<running, server, stopping>>]_vars

\* stop() has returned twice on a hub whose clients were closed by the
\* shutdown while the sweeper was in the middle of a sweep.
C28_Witness ==
    /\ stops >= 2
    /\ timeout_clients # <<>>
    /\ \E s \in Socks : close_code[s] = 1001 /\ hpc[s] = "exited"

\* ---------------------------------------------------------------- client
NextClient ==
    \/ \E ok \in BOOLEAN : connect(ok)
    \/ \E clean \in BOOLEAN : ConnectionLost(clean)
    \/ disconnect
    \/ \E id \in ReqIds, timeout \in Timeouts : Create(id, timeout)
    \/ \E m \in Inbound : on_message(m)
    \/ cleanup_expired_contexts
    \/ Tick

\* A client that has been constructed and not connected yet.
InitClient ==
    /\ codec = <<>>
    /\ max_connections = NSock
    /\ InitHub
    /\ InitContext
    /\ connected = FALSE
    /\ client_websocket = "none"
    /\ cleanup_task = "none"
    /\ receiving = "none"

\* One client: its connection and its context manager.
SpecClient == InitClient /\ [][NextClient]_vars

\* ---------------------------------------------------------------- C29
\* C29: when disconnect() has returned, the context sweeper is stopped, the
\* read loop dispatches no envelope and the websocket is closed, in whatever
\* state of the client disconnect() was called, also after the hub closed the
\* connection and receive_loop cleared connected.
C29_DisconnectStops ==
    returned.call = "disconnect" =>
        /\ cleanup_task # "running"
        /\ receiving # "running"
        /\ client_websocket # "open"

\* ---------------------------------------------------------------- codec
\* protocol/messages.py: the dataclasses with their __post_init__, to_dict and
\* from_dict.  A Python dict is a record of its keys; a dict that json.dumps
\* and json.loads leave as it is stands as a token, None for None.
Dicts == {None, "{}", "{k: 1}"}

\* ValidationException or SerializationException
Invalid == [raised |-> "ValidationException"]

\* data.get(key, default)
GetOr(data, key, default) == IF key \in DOMAIN data THEN data[key] ELSE default

\* ActionMessage(...), with __post_init__
ActionMessage(action, action_id, parameters) ==
    [class |-> "ActionMessage", message_type |-> "action", action |-> action,
     action_id |-> IF Truthy(action_id) THEN action_id ELSE "act_uuid4",
     parameters |-> IF parameters = None THEN "{}" ELSE parameters]

ActionMessage_to_dict(m) ==
    [message_type |-> m.message_type, action |-> m.action, action_id |-> m.action_id,
     parameters |-> m.parameters]

ActionMessage_from_dict(data) ==
    IF {"action", "action_id"} \subseteq DOMAIN data
    THEN ActionMessage(data.action, data.action_id, GetOr(data, "parameters", "{}"))
    ELSE Invalid

\* OutcomeMessage(...), with __post_init__
OutcomeMessage(action_id, status, outcome) ==
    [class |-> "OutcomeMessage", message_type |-> "outcome", action_id |-> action_id,
     status |-> status, outcome |-> IF outcome = None THEN "{}" ELSE outcome]

OutcomeMessage_to_dict(m) ==
    [message_type |-> m.message_type, action_id |-> m.action_id, status |-> m.status,
     outcome |-> m.outcome]

OutcomeMessage_from_dict(data) ==
    IF {"action_id", "status"} \subseteq DOMAIN data
    THEN OutcomeMessage(data.action_id, data.status, GetOr(data, "outcome", "{}"))
    ELSE Invalid

\* EventMessage(...), with __post_init__
EventMessage(event, event_id, data) ==
    [class |-> "EventMessage", message_type |-> "event", event |-> event,
     event_id |-> IF Truthy(event_id) THEN event_id ELSE "evt_uuid4",
     data |-> IF data = None THEN "{}" ELSE data]

EventMessage_to_dict(m) ==
    [message_type |-> m.message_type, event_id |-> m.event_id, event |-> m.event,
     data |-> m.data]

EventMessage_from_dict(data) ==
    IF {"event", "event_id"} \subseteq DOMAIN data
    THEN EventMessage(data.event, data.event_id, GetOr(data, "data", "{}"))
    ELSE Invalid

\* StreamMessage(...), with __post_init__
StreamMessage(stream_id, stream, sequence, chunk) ==
    [class |-> "StreamMessage", message_type |-> "stream",
     stream_id |-> IF Truthy(stream_id) THEN stream_id ELSE "strm_uuid4",
     stream |-> stream, sequence |-> sequence,
     chunk |-> IF chunk = None THEN "{}" ELSE chunk]

StreamMessage_to_dict(m) ==
    [message_type |-> m.message_type, stream_id |-> m.stream_id, stream |-> m.stream,
     sequence |-> m.sequence, chunk |-> m.chunk]

StreamMessage_from_dict(data) ==
    IF {"stream", "stream_id", "sequence"} \subseteq DOMAIN data
    THEN StreamMessage(data.stream_id, data.stream, data.sequence,
                       GetOr(data, "chunk", "{}"))
    ELSE Invalid

\* The ClientInfo of messages.py, which has a metadata field.
MessageClientInfo(client_id, client_type, env_id, metadata) ==
    [class |-> "ClientInfo", client_id |-> client_id, client_type |-> client_type,
     env_id |-> env_id, metadata |-> metadata]

\* ClientInfo.to_dict: env_id and metadata are left out when they are None.
ClientInfo_to_dict(c) ==
    IF c.env_id # None /\ c.metadata # None
    THEN [client_id |-> c.client_id, client_type |-> c.client_type,
          env_id |-> c.env_id, metadata |-> c.metadata]
    ELSE IF c.env_id # None
         THEN [client_id |-> c.client_id, client_type |-> c.client_type,
               env_id |-> c.env_id]
         ELSE IF c.metadata # None
              THEN [client_id |-> c.client_id, client_type |-> c.client_type,
                    metadata |-> c.metadata]
              ELSE [client_id |-> c.client_id, client_type |-> c.client_type]

ClientInfo_from_dict(data) ==
    IF {"client_id", "client_type"} \subseteq DOMAIN data
       /\ data.client_type \in ClientType
    THEN MessageClientInfo(data.client_id, data.client_type,
                           GetOr(data, "env_id", None), GetOr(data, "metadata", None))
    ELSE Invalid

RegistrationMessage(client_info) ==
    [class |-> "RegistrationMessage", message_type |-> "registration",
     client_info |-> client_info]

RegistrationMessage_to_dict(m) ==
    [message_type |-> m.message_type, client_info |-> ClientInfo_to_dict(m.client_info)]

RegistrationMessage_from_dict(data) ==
    IF "client_info" \in DOMAIN data /\ ClientInfo_from_dict(data.client_info) # Invalid
    THEN RegistrationMessage(ClientInfo_from_dict(data.client_info))
    ELSE Invalid

HeartbeatInfo(status, metrics) ==
    [class |-> "HeartbeatInfo", status |-> status, metrics |-> metrics]

HeartbeatInfo_to_dict(m) ==
    IF m.metrics # None THEN [status |-> m.status, metrics |-> m.metrics]
    ELSE [status |-> m.status]

ErrorInfo(error_message, details) ==
    [class |-> "ErrorInfo", error_message |-> error_message, details |-> details]

ErrorInfo_to_dict(m) ==
    IF m.details # None THEN [error_message |-> m.error_message, details |-> m.details]
    ELSE [error_message |-> m.error_message]

\* self.message.to_dict()
message_to_dict(m) ==
    CASE m.class = "ActionMessage" -> ActionMessage_to_dict(m)
      [] m.class = "OutcomeMessage" -> OutcomeMessage_to_dict(m)
      [] m.class = "EventMessage" -> EventMessage_to_dict(m)
      [] m.class = "StreamMessage" -> StreamMessage_to_dict(m)
      [] m.class = "RegistrationMessage" -> RegistrationMessage_to_dict(m)
      [] m.class = "HeartbeatInfo" -> HeartbeatInfo_to_dict(m)
      [] m.class = "ErrorInfo" -> ErrorInfo_to_dict(m)

\* message_from_dict
message_from_dict(data) ==
    LET message_type == GetOr(data, "message_type", None)
    IN IF message_type = "action" THEN ActionMessage_from_dict(data)
       ELSE IF message_type = "outcome" THEN OutcomeMessage_from_dict(data)
       ELSE IF message_type = "event" THEN EventMessage_from_dict(data)
       ELSE IF message_type = "stream" THEN StreamMessage_from_dict(data)
       ELSE IF message_type = "registration" THEN RegistrationMessage_from_dict(data)
       ELSE Invalid

\* Envelope(...), with __post_init__: a missing envelope_id is a fresh uuid, a
\* missing timestamp (NoTime) is the time of the clock.
Envelope(envelope_type, sender, recipient, message, envelope_id, timestamp) ==
    [envelope_type |-> envelope_type, sender |-> sender, recipient |-> recipient,
     message |-> message,
     envelope_id |-> IF envelope_id = None THEN "uuid4" ELSE envelope_id,
     timestamp |-> IF timestamp = NoTime THEN now ELSE timestamp]

\* Envelope.to_dict / to_json
to_dict(e) ==
    [type |-> e.envelope_type, sender |-> e.sender, recipient |-> e.recipient,
     message |-> message_to_dict(e.message), envelope_id |-> e.envelope_id,
     timestamp |-> e.timestamp]

\* Envelope.from_dict / from_json: the envelope, or Invalid when it raises.
from_dict(data) ==
    IF "type" \notin DOMAIN data \/ data.type \notin EnvelopeType THEN Invalid
    ELSE LET message ==
                 IF data.type = HEARTBEAT THEN HeartbeatInfo("alive", None)
                 ELSE IF "message" \in DOMAIN data THEN message_from_dict(data.message)
                 ELSE Invalid
         IN IF message = Invalid \/ ~({"sender", "recipient"} \subseteq DOMAIN data)
            THEN Invalid
            ELSE Envelope(data.type, data.sender, data.recipient, message,
                          GetOr(data, "envelope_id", None),
                          GetOr(data, "timestamp", NoTime))

\* The messages a client builds.
Messages ==
    { ActionMessage("move", id, p) : id \in {"", "x1"}, p \in Dicts }
    \cup { OutcomeMessage(id, "success", p) : id \in {"", "x1"}, p \in Dicts }
    \cup { EventMessage("tick", id, p) : id \in {"", "x1"}, p \in Dicts }
    \cup { StreamMessage(id, "video", n, p) : id \in {"", "x1"}, n \in {0, 1}, p \in Dicts }
    \cup { RegistrationMessage(MessageClientInfo("a1", AGENT, env, meta)) :
              env \in {None, "w1"}, meta \in {None, "{}"} }
    \cup { HeartbeatInfo(status, metrics) :
              status \in {"alive", "busy"}, metrics \in {None, "{k: 1}"} }
    \cup { ErrorInfo("boom", details) : details \in {None, "{}"} }

\* The envelopes a client builds.
Envelopes ==
    { Envelope(t, "a1", "w1", m, id, ts) :
          t \in EnvelopeType, m \in Messages, id \in {None, "e1"}, ts \in {NoTime, 3} }

\* envelope.to_json() of the envelope built.
Encode ==
    /\ Len(codec) = 1
    /\ codec' = Append(codec, to_dict(codec[1]))
    /\ UNCHANGED ctxvars
    /\ UNCHANGED wirevars
    /\ UNCHANGED stopvars
    /\ UNCHANGED <<max_connections, ws, close_code, hpc, hid, connections, type_index,
                   env_index, timeout_clients, handled>>

\* Envelope.from_json of the frame, as the hub's read loop calls it.
Decode ==
    /\ Len(codec) = 2
    /\ codec' = Append(codec, from_dict(codec[2]))
    /\ UNCHANGED ctxvars
    /\ UNCHANGED wirevars
    /\ UNCHANGED stopvars
    /\ UNCHANGED <<max_connections, ws, close_code, hpc, hid, connections, type_index,
                   env_index, timeout_clients, handled>>

NextCodec == Encode \/ Decode

\* A client has built an envelope.
InitCodec ==
    /\ max_connections = NSock
    /\ InitHub
    /\ InitContext
    /\ connected = FALSE
    /\ client_websocket = "none"
    /\ cleanup_task = "none"
    /\ receiving = "none"
    /\ \E e \in Envelopes : codec = <<e>>

\* One envelope encoded and decoded again.
SpecCodec == InitCodec /\ [][NextCodec]_vars

\* ---------------------------------------------------------------- C30
\* C30: for every envelope whose encoding the hub accepts, of type message,
\* heartbeat or error, the envelope decoded from its encoding equals the
\* original in type, sender, recipient, envelope_id, timestamp and every
\* field of the embedded message.
C30_RoundTrip ==
    Len(codec) = 3 /\ codec[3] # Invalid => codec[3] = codec[1]

\* ---------------------------------------------------------------- statistics
\* ClientContext.get_pending_contexts: the ids of the map whose entry is
\* pending.
get_pending_contexts ==
    {id \in ReqIds : contexts[id] # 0 /\ items[contexts[id]].status = PENDING}

\* ClientContext.get_stats: the counters, with pending_requests and
\* active_contexts computed from the map.
get_stats ==
    [total_requests |-> stats.total_requests,
     completed_requests |-> stats.completed_requests,
     timeout_requests |-> stats.timeout_requests,
     error_requests |-> stats.error_requests,
     pending_requests |-> Cardinality(get_pending_contexts),
     active_contexts |-> Cardinality({id \in ReqIds : contexts[id] # 0})]

\* Every item that was ever created is still the entry of the map under its
\* request id: none was removed and none was replaced.
NoneRemoved == \A i \in 1..Len(items) : contexts[items[i].request_id] = i

\* C31: as long as no entry has been removed from the map, the statistics
\* count every request exactly once: total_requests is the sum of
\* completed_requests, timeout_requests, error_requests and pending_requests,
\* and pending_requests is the number of entries get_pending_contexts returns.
C31_StatsAccount ==
    NoneRemoved =>
        /\ get_stats.total_requests =
              get_stats.completed_requests + get_stats.timeout_requests
              + get_stats.error_requests + get_stats.pending_requests
        /\ get_stats.pending_requests = Cardinality(get_pending_contexts)

\* ---------------------------------------------------------------- sweeper
\* The sweeper closes the websocket registered under the next collected id,
\* or unregisters that id, in this step.
SweepRemoves ==
    /\ CloseStep
    /\ Head(timeout_clients) \in ConnIds(Registry)

\* C32: the heartbeat sweeper closes and unregisters only connections whose
\* last_heartbeat is older than 2 * heartbeat_interval at the moment they are
\* closed: a connection registered or touched more recently is never closed
\* by a sweep, whatever runs between the sweep's suspension points.
C32_SweepOnlyOverdue ==
    [][SweepRemoves =>
          get_connection(Registry, Head(timeout_clients)).overdue]_vars

\* ---------------------------------------------------------------- handlers
\* The kinds the user registers handlers for, and the filters of a kind.
RegisteredKinds == {"action", "outcome"}

FilterNames(kind) == IF kind = "action" THEN {None, "move"} ELSE {None, "q1"}

\* The messages receive_loop reads: actions, outcomes, an event, a stream
\* chunk and a registration message, which on_message has no hook for.
DispatchInbound ==
    { Msg("action", "move", None, "r1"), Msg("action", "look", None, "r1"),
      Msg("outcome", None, "q1", "r1"), Msg("outcome", None, "q0", "r1"),
      Msg("event", "reply", "q1", "r2"), Msg("stream", "video", None, "r1"),
      Msg("registration", None, None, "r1") }

NextDispatch ==
    \/ \E kind \in RegisteredKinds, raises \in BOOLEAN :
          \E name \in FilterNames(kind) : register(kind, name, raises)
    \/ \E m \in DispatchInbound : on_message(m)
    \/ invoke

\* A connected client whose user registers handlers while receive_loop
\* dispatches the messages it reads.
SpecDispatch == InitCtx /\ [][NextDispatch]_vars

\* The positions among the first n handlers of hs whose filter admits m, in
\* registration order.
RECURSIVE AdmittedUpTo(_, _, _)
AdmittedUpTo(hs, m, n) ==
    IF n = 0 THEN <<>>
    ELSE IF admits(hs[n], m) THEN Append(AdmittedUpTo(hs, m, n - 1), n)
         ELSE AdmittedUpTo(hs, m, n - 1)

\* A handler has returned or raised in this step.
InvokeStep == dispatching'.at = dispatching.at + 1 /\ dispatching'.message = dispatching.message

\* C33: for each inbound message the client calls the user handlers
\* registered for its kind (and admitted by their filter) in registration
\* order, each exactly once; a handler that raises keeps no later handler
\* from being called and does not stop the read loop.
C33_HandlersInOrder ==
    /\ [](dispatching.called =
              AdmittedUpTo(handlers_for(dispatching.message), dispatching.message,
                           dispatching.at - 1))
    /\ [][Dispatching => dispatching'.message = dispatching.message /\ InvokeStep]_dispatching
    /\ [][InvokeStep => receiving' = "running"]_vars

\* A dispatch has ended in which the first of two handlers raised and the
\* second was called all the same.
C33_Witness ==
    /\ ~Dispatching
    /\ Len(handlers_for(dispatching.message)) = 2
    /\ handlers_for(dispatching.message)[1].raises
    /\ dispatching.called = <<1, 2>>

\* ---------------------------------------------------------------- matching
\* The entry of the map under the correlation id of m, pending when m
\* arrives; 0 if there is none.
PendingFor(m) ==
    IF /\ correlation_id(m) \in ReqIds
       /\ contexts[correlation_id(m)] # 0
       /\ items[contexts[correlation_id(m)]].status = PENDING
    THEN contexts[correlation_id(m)] ELSE 0

\* C34: reply matching precedes the user handlers: when on_outcome or
\* on_event runs the user's handlers for an inbound message whose correlation
\* id matches an entry that was pending on arrival, the entry is completed
\* and holds the message as its reply.
C34_MatchBeforeHandlers ==
    [][\A m \in Inbound :
          (/\ on_message(m)
           /\ seen' \in {"on_outcome", "on_event"}
           /\ PendingFor(m) # 0) =>
              /\ items'[PendingFor(m)].status = COMPLETED
              /\ items'[PendingFor(m)].future = "result"
              /\ items'[PendingFor(m)].result = m.body]_vars

\* ---------------------------------------------------------------- malformed
\* The connect events of the clients that write malformed frames, and the
\* frames of their read loops: frames with an unknown envelope type or an
\* unknown message_type, which do not decode, and frames that do.
MalformedConnects ==
    { ConnectFrame("a1", "agent", "w1"), ConnectFrame("a2", "agent", "w1"),
      ConnectFrame("env_w1", "environment", None) }

MalformedFrames ==
    { Frame("bogus", "a1", "a2", "event", "tick", None, None),
      Frame(MESSAGE, "a1", "a2", "bogus", None, None, None),
      Frame(MESSAGE, "a2", "broadcast", "bogus", None, None, None),
      MessageFrame("a1", "a2", "action"),
      MessageFrame("a2", "broadcast", "action"),
      Frame(HEARTBEAT, "a1", "hub", None, None, None, None) }

NextMalformed ==
    \/ \E s \in Socks, f \in MalformedConnects : Handshake(s, f)
    \/ \E s \in Socks, f \in MalformedFrames : Receive(s, f)
    \/ LoopAgain
    \/ \E s \in Socks : PeerClose(s)
    \/ \E s \in Socks : HandlerExit(s)
    \/ TimePasses

\* The handlers of the hub with clients that write frames that do not
\* decode, while time passes.
SpecMalformed == Init /\ [][NextMalformed]_vars

\* The handler of a registered client has read a frame that does not decode.
MalformedStep ==
    /\ FrameStep
    /\ ~Decodes(handled'.frame)
    /\ handled'.from \in Registered

\* C35: a frame from a registered client that fails to decode is dropped
\* without effect: nothing is written for it, the registry with its
\* heartbeat times is unchanged, so the client and every other client stay
\* registered, no websocket is closed, and the handler stays in its read
\* loop on the open websocket, where the next frame is read.
C35_MalformedDropped ==
    /\ [][MalformedStep =>
              /\ handled'.written = {}
              /\ handled'.failed = {}
              /\ Registry' = Registry
              /\ ws' = ws
              /\ close_code' = close_code
              /\ hpc' = hpc
              /\ hid' = hid]_vars
    /\ [][(handled.op = "frame" /\ ~Decodes(handled.frame) /\ handled' = Idle) =>
              /\ hpc'[handled.from] = "loop"
              /\ ws'[handled.from] = "open"]_vars

\* A registered client has written a frame that does not decode while
\* another client is registered, and is still registered.
C35_Witness ==
    /\ handled.op = "frame"
    /\ ~Decodes(handled.frame)
    /\ handled.from \in Registered
    /\ Cardinality(Registered) >= 2

\* ---------------------------------------------------------------- direct
\* The handler of a websocket has read an envelope addressed to one client id.
DirectStep == FrameStep /\ IsDirect(handled'.frame)

\* The envelope of the step reaches the router and its recipient can be
\* written to: it is no heartbeat, the id of the handler that read it is
\* registered, and so is the recipient, on a websocket that is open.
Deliverable ==
    /\ handled'.frame.type # HEARTBEAT
    /\ hid[handled'.from] \in ConnIds(Registry)
    /\ handled'.frame.recipient \in ConnIds(Registry)
    /\ send_envelope(get_connection(Registry, handled'.frame.recipient))

\* C36 as stated: an envelope with a concrete recipient id is written to
\* exactly one socket, the connection registered under that id.
C36_Original ==
    [][DirectStep =>
          handled'.written = {websocket_of(Registry, handled'.frame.recipient)}]_vars

\* C36 (as amended): an envelope with a concrete recipient id is written to
\* no connection but the one currently registered under that id, whatever
\* the kinds and env_ids of sender and recipient; it is written to that
\* connection, and so to exactly one socket, when it is of type message or
\* error, the handler that read it is registered, and the recipient is
\* registered on a websocket the write to which succeeds.
C36_DirectOnly ==
    [][DirectStep =>
          /\ handled'.written \subseteq
                ({websocket_of(Registry, handled'.frame.recipient)} \ {0})
          /\ Deliverable =>
                handled'.written = {websocket_of(Registry, handled'.frame.recipient)}]_vars

\* An agent of environment w1 has sent an action to the human of environment
\* w2 while a third client is registered, and only the human's websocket was
\* written to.
C36_Witness ==
    /\ handled.op = "frame"
    /\ handled.frame.recipient = "h1"
    /\ hid[handled.from] = "a1"
    /\ handled.written = {websocket_of(Registry, "h1")}
    /\ Cardinality(Registered) = 3

\* ---------------------------------------------------------------- waiting
\* Task t has left a wait on an entry that existed when it called: a call of
\* wait_for_response, or the wait of send_action_with_context once the action
\* was written.
WaitOver(t) ==
    /\ tasks[t].pc = "done"
    /\ tasks[t].item # 0
    /\ tasks[t].got \notin {"RuntimeError", "ConnectionClosed"}

\* C37: every wait on an existing context entry ends within its timeout,
\* whether or not a reply arrives and whether or not the sweeper runs: the
\* clock never passes the deadline of a task that still waits, and a wait
\* that is over has returned the reply or failed with the timeout error or
\* with the stored exception.
C37_WaitTerminates ==
    \A t \in Tasks :
        /\ tasks[t].pc \in {"waiting", "expired"} => now <= tasks[t].deadline
        /\ WaitOver(t) => tasks[t].got \in {"reply", "TimeoutError", "Exception"}

\* ---------------------------------------------------------------- replies
\* The context item at position i was created for an action, is pending, and
\* becomes completed in this step.
ActionCompleted(i) ==
    /\ items[i].request_type = "action"
    /\ items[i].status = PENDING
    /\ items'[i].status = COMPLETED

\* C38: a pending context created for an action is completed only by the
\* dispatch of an inbound outcome whose action_id is its request id, never by
\* an inbound event or by an outcome with another action_id; so what
\* send_action_with_context returns is an outcome for that action.
C38_OutcomeOnly ==
    [][\A i \in 1..Len(items) :
          ActionCompleted(i) =>
              /\ seen' = "on_outcome"
              /\ returned' = Returned("complete_request", items[i].request_id, TRUE)]_vars

\* ---------------------------------------------------------------- sending
NextSend ==
    \/ \E ok \in BOOLEAN : connect(ok)
    \/ \E clean \in BOOLEAN : ConnectionLost(clean)
    \/ disconnect
    \/ \E t \in Senders, timeout \in Timeouts : send_action_with_context(t, timeout)
    \/ \E t \in Tasks : SendDone(t)
    \/ \E t \in Tasks : WaitWake(t)
    \/ \E t \in Tasks : WaitExpire(t)
    \/ \E t \in Tasks : WaitRaise(t)
    \/ \E m \in Inbound : on_message(m)
    \/ cleanup_expired_contexts
    \/ Tick

\* One client that sends an action with a context while its connection
\* comes and goes.
SpecSend == InitClient /\ [][NextSend]_vars

\* send_envelope raises in this step for the request of task t: the client
\* is not connected, or the write to the websocket fails.
WriteFails(t) ==
    /\ tasks[t].pc = "sending"
    /\ tasks'[t].pc = "done"
    /\ tasks'[t].got \in {"RuntimeError", "ConnectionClosed"}

\* C39: when send_action_with_context fails to write the request, the
\* context state is as before the call: no pending entry of the request is
\* left in the map and total_requests is what it was before the call.
C39_FailedSendLeavesNothing ==
    [][\A t \in Tasks :
          WriteFails(t) =>
              /\ \/ contexts'[items[tasks[t].item].request_id] # tasks[t].item
                 \/ items'[tasks[t].item].status # PENDING
              /\ stats'.total_requests = stats.total_requests - 1]_vars

\* ---------------------------------------------------------------- removal
\* The clients that connect, go away and connect again under the same id.
RejoinConnects ==
    { ConnectFrame("env_w1", "environment", None),
      ConnectFrame("a1", "agent", "w1") }

\* The envelopes the environment writes: a stream chunk to everybody, and one
\* to the agent.
RejoinFrames ==
    { MessageFrame("env_w1", rcp, "stream") : rcp \in {"broadcast", "a1"} }

NextRejoin ==
    \/ \E s \in Socks, f \in RejoinConnects : Handshake(s, f)
    \/ LoopAgain
    \/ \E s \in Socks, f \in RejoinFrames : RouteBegin(s, f)
    \/ \E s \in Socks, i \in 1..NSock : RouteWrite(s, i)
    \/ \E r \in Socks : Stall(r)
    \/ \E r \in Socks : Drain(r)
    \/ \E r \in Socks : Dispatch(r)
    \/ \E s \in Socks : PeerClose(s)
    \/ \E s \in Socks : HandlerExit(s)

\* The hub with its writes one at a time and clients that come back under the
\* id they had.
SpecRejoin == Init /\ [][NextRejoin]_vars

====
